---- MODULE Spec2Model ----
(***************************************************************************)
(* Model of the ACI -> NetBox reconciliation engine (aci_netbox_sync):     *)
(* the field-diff predicate values_equal, the per-object-type sync modules,*)
(* BaseSyncModule.sync and SyncOrchestrator.run_all.                       *)
(***************************************************************************)
EXTENDS Integers, Sequences, FiniteSets, TLC

(***************************************************************************)
(* Python values.  A value is a tagged pair so that values of different    *)
(* Python types can be held in one set and compared as Python compares     *)
(* them.  Object ids are the destination's primary keys (positive).        *)
(***************************************************************************)
MaxInt == 2
MaxObjId == 2

PyNone == <<"none", 0>>
PyStr(s) == <<"str", s>>
PyInt(n) == <<"int", n>>
PyBool(b) == <<"bool", b>>
PyObj(i) == <<"obj", i>>

Tag(v) == v[1]

StrSamples == {"", "a", "b"}

PyValues ==
    {PyNone} \cup {PyStr(s) : s \in StrSamples} \cup {PyBool(b) : b \in BOOLEAN}
           \cup {PyInt(n) : n \in 0..MaxInt} \cup {PyObj(i) : i \in 1..MaxObjId}

\* bool(v)
Truthy(v) ==
    CASE Tag(v) = "none" -> FALSE
      [] Tag(v) = "str"  -> v[2] /= ""
      [] Tag(v) = "int"  -> v[2] /= 0
      [] Tag(v) = "bool" -> v[2]
      [] OTHER           -> TRUE

\* the number a bool or an int stands for (bool is a subclass of int)
AsNum(v) == IF Tag(v) = "bool" THEN (IF v[2] THEN 1 ELSE 0) ELSE v[2]

IsNum(v) == Tag(v) \in {"bool", "int"}

\* Python's ==
PyEq(a, b) ==
    IF IsNum(a) /\ IsNum(b) THEN AsNum(a) = AsNum(b)
    ELSE IF Tag(a) = Tag(b) THEN a[2] = b[2]
    ELSE FALSE

\* hasattr(v, 'id') ... v.id
ReduceId(v) == IF Tag(v) = "obj" THEN PyInt(v[2]) ELSE v

values_equal_nobool(current, new) ==
    IF Tag(current) = "none" /\ PyEq(new, PyStr("")) THEN TRUE
    ELSE IF PyEq(current, PyStr("")) /\ Tag(new) = "none" THEN TRUE
    ELSE IF Tag(current) = "none" /\ Tag(new) = "none" THEN TRUE
    ELSE PyEq(ReduceId(current), ReduceId(new))

\* variant: any two falsy values are equal
values_equal_falsy(current, new) ==
    IF ~Truthy(current) /\ ~Truthy(new) THEN TRUE
    ELSE LET c == ReduceId(current)
             n == ReduceId(new)
         IN IF Tag(n) = "bool"
            THEN (IF Tag(c) /= "none" THEN Truthy(c) ELSE FALSE) = n[2]
            ELSE PyEq(c, n)

\* variant: references are compared as they are, without their id
values_equal_noreduce(current, new) ==
    IF Tag(current) = "none" /\ PyEq(new, PyStr("")) THEN TRUE
    ELSE IF PyEq(current, PyStr("")) /\ Tag(new) = "none" THEN TRUE
    ELSE IF Tag(current) = "none" /\ Tag(new) = "none" THEN TRUE
    ELSE IF Tag(new) = "bool"
         THEN (IF Tag(current) /= "none" THEN Truthy(current) ELSE FALSE) = new[2]
         ELSE PyEq(current, new)

values_equal(current, new) ==
    IF Tag(current) = "none" /\ PyEq(new, PyStr("")) THEN TRUE
    ELSE IF PyEq(current, PyStr("")) /\ Tag(new) = "none" THEN TRUE
    ELSE IF Tag(current) = "none" /\ Tag(new) = "none" THEN TRUE
    ELSE LET c == ReduceId(current)
             n == ReduceId(new)
         IN IF Tag(n) = "bool"
            THEN (IF Tag(c) /= "none" THEN Truthy(c) ELSE FALSE) = n[2]
            ELSE PyEq(c, n)

(***************************************************************************)
(* Python dicts (source records, parameter sets, update sets) are          *)
(* functions from field names to Python values.                            *)
(***************************************************************************)
EmptyDict == [k \in {} |-> PyNone]

\* d.get(k)
Get(d, k) == IF k \in DOMAIN d THEN d[k] ELSE PyNone

\* {**a, **b}
Merge(a, b) ==
    [k \in (DOMAIN a) \cup (DOMAIN b) |-> IF k \in DOMAIN b THEN b[k] ELSE a[k]]

\* the entries of d whose key is in S
Only(d, S) == [k \in S \cap DOMAIN d |-> d[k]]

\* variant: a key that is missing resolves to the destination's first object
MapGet_first(m, k) == IF k \in DOMAIN m THEN m[k] ELSE 1

\* Context maps: name key -> destination id; .get(key) of a missing key is
\* None, which every caller tests with "if not x" (0 stands for it).
MapGet(m, k) == IF k \in DOMAIN m THEN m[k] ELSE 0

MapPut(m, k, v) == [x \in (DOMAIN m) \cup {k} |-> IF x = k THEN v ELSE m[x]]

(***************************************************************************)
(* The destination (NetBox): a sequence of objects, an object's id is its  *)
(* position.  A foreign key is sent as an id and read back as a nested     *)
(* object exposing that id.                                                *)
(***************************************************************************)
FKFields ==
    {"aci_fabric", "aci_tenant", "aci_vrf", "aci_bridge_domain",
     "aci_app_profile", "aci_contract", "aci_contract_filter", "aci_pod",
     "tep_pool", "tep_ip_address", "gateway_ip_address"}

Stored(params) ==
    [k \in DOMAIN params |->
        IF k \in FKFields /\ Tag(params[k]) = "int"
        THEN PyObj(params[k][2]) ELSE params[k]]

\* a lookup by "<relation>_id" filters on the id of the related object
FilterField(k) ==
    CASE k = "aci_fabric_id" -> "aci_fabric"
      [] k = "aci_tenant_id" -> "aci_tenant"
      [] k = "aci_app_profile_id" -> "aci_app_profile"
      [] k = "aci_contract_id" -> "aci_contract"
      [] k = "aci_contract_filter_id" -> "aci_contract_filter"
      [] k = "gateway_ip_address_id" -> "gateway_ip_address"
      [] OTHER               -> k

Matches(o, ep, params) ==
    /\ o.ep = ep
    /\ \A k \in DOMAIN params :
          ReduceId(Get(o.f, FilterField(k))) = ReduceId(params[k])

Find(nbs, ep, params) == {i \in 1..Len(nbs) : Matches(nbs[i], ep, params)}

\* the outcome of a get-or-create: raised, or the object's id and whether it
\* was created; wrote counts the create request
Raised(nbs, w) == [raised |-> TRUE, nb |-> nbs, id |-> 0, created |-> FALSE, wrote |-> w]

Existing(nbs, found) ==
    [raised |-> FALSE, nb |-> nbs, id |-> CHOOSE i \in found : TRUE,
     created |-> FALSE, wrote |-> 0]

Created(nbs, ep, create) ==
    [raised |-> FALSE, nb |-> Append(nbs, [ep |-> ep, f |-> Stored(create)]),
     id |-> Len(nbs) + 1, created |-> TRUE, wrote |-> 1]

\* existing = endpoint.get(**lookup); more than one match makes get() raise
GetThenCreate(nbs, ep, found, create, fail) ==
    IF fail \/ Cardinality(found) > 1
    THEN Raised(nbs, IF found = {} THEN 1 ELSE 0)
    ELSE IF found /= {} THEN Existing(nbs, found)
    ELSE Created(nbs, ep, create)

\* NetBoxClient._get_or_create; `fail` is a destination failure of the
\* request (the lookup of an existing object, the create of a missing one)
get_or_create(nbs, ep, lookup, create, fail) ==
    GetThenCreate(nbs, ep, Find(nbs, ep, lookup), create, fail)

\* variant: the new object is not put in the cache
get_or_create_cached_nostore(cache, cache_key, nbs, ep, create, fail) ==
    IF cache_key \in DOMAIN cache
    THEN [raised |-> FALSE, nb |-> nbs, id |-> cache[cache_key], created |-> FALSE, wrote |-> 0, cache |-> cache]
    ELSE IF fail
    THEN [raised |-> TRUE, nb |-> nbs, id |-> 0, created |-> FALSE, wrote |-> 1, cache |-> cache]
    ELSE [raised |-> FALSE, nb |-> Created(nbs, ep, create).nb, id |-> Len(nbs) + 1, created |-> TRUE, wrote |-> 1, cache |-> cache]

\* _get_or_create_cached(cache, cache_key, endpoint, create_params): the
\* cache is a dict from key to object (its id here); fail: endpoint.create
\* raises
get_or_create_cached(cache, cache_key, nbs, ep, create, fail) ==
    IF cache_key \in DOMAIN cache
    THEN [raised |-> FALSE, nb |-> nbs, id |-> cache[cache_key], created |-> FALSE, wrote |-> 0, cache |-> cache]
    ELSE IF fail
    THEN [raised |-> TRUE, nb |-> nbs, id |-> 0, created |-> FALSE, wrote |-> 1, cache |-> cache]
    ELSE [raised |-> FALSE, nb |-> Created(nbs, ep, create).nb, id |-> Len(nbs) + 1, created |-> TRUE, wrote |-> 1,
          cache |-> MapPut(cache, cache_key, Len(nbs) + 1)]

\* fetch_all_pods(fabric_id): the fabric's pods keyed by pod_id
fetch_all_pods(nbs, fabric_id) ==
    [k \in {nbs[i].f.pod_id[2] : i \in {j \in DOMAIN nbs : nbs[j].ep = "pods" /\ nbs[j].f.aci_fabric = PyObj(fabric_id)}} |->
        CHOOSE i \in DOMAIN nbs : nbs[i].ep = "pods" /\ nbs[i].f.aci_fabric = PyObj(fabric_id) /\ nbs[i].f.pod_id[2] = k]

\* get_or_create_pod_cached(cache, pod_id, fabric_id, name=...)
get_or_create_pod_cached(cache, pod_id, fabric_id, nbs, fail) ==
    get_or_create_cached(cache, pod_id, nbs, "pods",
        ("aci_fabric" :> PyInt(fabric_id)) @@ ("pod_id" :> PyInt(pod_id))
            @@ ("name" :> PyStr("pod-" \o ToString(pod_id))),
        fail)

\* variant: the client-side copy reduced to its last line, "current == new"
\* after the ids were taken
nb_values_equal_plain(current, new) == PyEq(ReduceId(current), ReduceId(new))

\* the client-side copy of the field-diff predicate
nb_values_equal(current, new) ==
    IF Tag(current) = "none" /\ PyEq(new, PyStr("")) THEN TRUE
    ELSE IF PyEq(current, PyStr("")) /\ Tag(new) = "none" THEN TRUE
    ELSE IF Tag(current) = "none" /\ Tag(new) = "none" THEN TRUE
    ELSE IF Tag(ReduceId(new)) = "bool"
    THEN (IF Tag(ReduceId(current)) /= "none" THEN Truthy(ReduceId(current)) ELSE FALSE)
            = ReduceId(new)[2]
    ELSE PyEq(ReduceId(current), ReduceId(new))

\* the verification pass after obj.update(changes): re-read, compare
Verify(o, changes, fault) ==
    /\ fault /= "refresh"
    /\ \A k \in DOMAIN changes : nb_values_equal(Get(o.f, k), changes[k])

\* obj.update(changes) and what follows it
ApplyChanges(nbs, id, changes, verify, fault) ==
    IF DOMAIN changes = {}
    THEN [changed |-> FALSE, verified |-> TRUE, nb |-> nbs, wrote |-> 0]
    ELSE IF fault = "update"
    THEN [changed |-> FALSE, verified |-> FALSE, nb |-> nbs, wrote |-> 1]
    ELSE [changed |-> TRUE,
          verified |-> verify => Verify([f |-> Merge(nbs[id].f, Stored(changes))],
                                        changes, fault),
          nb |-> [nbs EXCEPT ![id].f = Merge(@, Stored(changes))],
          wrote |-> 1]

\* NetBoxClient._update_if_changed(obj, updates, verify) -> (changed, verified).
\* fault "update": obj.update raises; fault "refresh": the re-read raises.
update_if_changed(nbs, id, updates, verify, fault) ==
    ApplyChanges(nbs, id,
        Only(updates, {k \in DOMAIN updates :
                          ~nb_values_equal(Get(nbs[id].f, k), updates[k])}),
        verify, fault)

(***************************************************************************)
(* Contract relations.  The destination's links are a sequence of records; *)
(* the client keeps the list it fetched until a create succeeds.  In a     *)
(* link, aci_tenant or aci_fabric 0 stands for a key left out.             *)
(***************************************************************************)
\* _contract_relations_cache is None
NoCache == [fetched |-> FALSE, rels |-> << >>]

\* what can go wrong in one call: the GET of the list, the status of the
\* POST, or the POST raising
RelFaults == {"none", "get", "post_status", "post_raise"}

\* _fetch_contract_relations: the cache afterwards
fetch_contract_relations(cache, links, fault) ==
    IF cache.fetched THEN cache
    ELSE IF fault = "get" THEN [fetched |-> TRUE, rels |-> << >>]
    ELSE [fetched |-> TRUE, rels |-> links]

\* object_type_filter in rel_type.lower(), for the filter 'vrf'
TypeMatches(object_type_filter, rel_type) ==
    object_type_filter = "vrf" /\ rel_type = "netbox_aci_plugin.acivrf"

\* _relation_exists over the fetched list ("" is no filter)
relation_exists(relations, object_id, contract_id, role, object_type_filter) ==
    \E i \in DOMAIN relations :
        /\ relations[i].aci_object_id = object_id
        /\ relations[i].aci_contract = contract_id
        /\ relations[i].role = role
        /\ object_type_filter /= "" => TypeMatches(object_type_filter, relations[i].aci_object_type)

\* variant: a successful POST leaves the cached list in place
post_relation_keep(links, cache, post_data, fault) ==
    IF fault \in {"post_status", "post_raise"}
    THEN [ret |-> FALSE, links |-> links, cache |-> cache, posts |-> 1]
    ELSE [ret |-> TRUE, links |-> Append(links, post_data), cache |-> cache, posts |-> 1]

\* the POST and what follows: 200/201 invalidates the cache and gives True,
\* any other status and any exception give False
post_relation(links, cache, post_data, fault) ==
    IF fault \in {"post_status", "post_raise"}
    THEN [ret |-> FALSE, links |-> links, cache |-> cache, posts |-> 1]
    ELSE [ret |-> TRUE, links |-> Append(links, post_data), cache |-> NoCache, posts |-> 1]

\* the body both create functions share, cache being the cache after the fetch
create_relation(links, cache, object_type_filter, post_data, fault) ==
    IF relation_exists(cache.rels, post_data.aci_object_id, post_data.aci_contract, post_data.role, object_type_filter)
    THEN [ret |-> FALSE, links |-> links, cache |-> cache, posts |-> 0]
    ELSE post_relation(links, cache, post_data, fault)

create_contract_relation(links, cache, contract_id, epg_id, role, tenant_id, fabric_id, fault) ==
    create_relation(links, fetch_contract_relations(cache, links, fault), "",
        [aci_contract |-> contract_id, aci_object_type |-> "netbox_aci_plugin.aciendpointgroup",
         aci_object_id |-> epg_id, role |-> role, aci_tenant |-> tenant_id, aci_fabric |-> fabric_id],
        fault)

create_vrf_contract_relation(links, cache, vrf_id, contract_id, role, tenant_id, fault) ==
    create_relation(links, fetch_contract_relations(cache, links, fault), "vrf",
        [aci_contract |-> contract_id, aci_object_type |-> "netbox_aci_plugin.acivrf",
         aci_object_id |-> vrf_id, role |-> role, aci_tenant |-> tenant_id, aci_fabric |-> 0],
        fault)

(***************************************************************************)
(* SyncResult and the outcome of one sync_object call.                     *)
(***************************************************************************)
SyncResult(type) ==
    [object_type |-> type, created |-> 0, updated |-> 0, unchanged |-> 0,
     failed |-> 0, verified |-> 0, errors |-> << >>]

\* variant: a skip that reports success ("return True")
SkipSuccess(res, nbs, ctx) ==
    [ret |-> TRUE, raised |-> FALSE, res |-> res, nb |-> nbs, ctx |-> ctx,
     skipped |-> TRUE, failedCall |-> "none", writes |-> 0]

\* an early "return False" before any destination call
Skip(res, nbs, ctx) ==
    [ret |-> FALSE, raised |-> FALSE, res |-> res, nb |-> nbs, ctx |-> ctx,
     skipped |-> TRUE, failedCall |-> "none", writes |-> 0]

\* the "except Exception" handler of a sync_object
Except(res, nbs, ctx, w) ==
    [ret |-> FALSE, raised |-> FALSE,
     res |-> [res EXCEPT !.failed = @ + 1, !.errors = Append(@, "record")],
     nb |-> nbs, ctx |-> ctx, skipped |-> FALSE, failedCall |-> "goc", writes |-> w]

\* "return True"
Return(res, nbs, ctx, failedCall, w) ==
    [ret |-> TRUE, raised |-> FALSE, res |-> res, nb |-> nbs, ctx |-> ctx,
     skipped |-> FALSE, failedCall |-> failedCall, writes |-> w]

\* the counting with verified counted whatever the update call did
CountUpdate_verified(res, u, fault) ==
    [res |-> IF u.changed
             THEN [res EXCEPT !.updated = @ + 1,
                              !.verified = IF u.verified THEN @ + 1 ELSE @]
             ELSE [res EXCEPT !.unchanged = @ + 1,
                              !.verified = IF u.verified THEN @ + 1 ELSE @],
     nb |-> u.nb, wrote |-> u.wrote,
     failedCall |-> IF u.wrote = 1 /\ fault = "update" THEN "update" ELSE "none"]

\* the counting after the update call: updated / verified, or unchanged
CountUpdate(res, u, fault) ==
    [res |-> IF u.changed
             THEN [res EXCEPT !.updated = @ + 1,
                              !.verified = IF u.verified THEN @ + 1 ELSE @]
             ELSE [res EXCEPT !.unchanged = @ + 1],
     nb |-> u.nb, wrote |-> u.wrote,
     failedCall |-> IF u.wrote = 1 /\ fault = "update" THEN "update" ELSE "none"]

\* the update branch every sync_object repeats: call the update function
\* when the update set is not empty, then count
InlineUpdate(res, nbs, id, updates, verify, fault) ==
    IF DOMAIN updates = {}
    THEN [res |-> [res EXCEPT !.unchanged = @ + 1], nb |-> nbs, wrote |-> 0,
          failedCall |-> "none"]
    ELSE CountUpdate(res, update_if_changed(nbs, id, updates, verify, fault), fault)

\* the end of a sync_object whose get-or-create gave g: count the create, or
\* take the outcome u of the update branch; then store the id in the context
\* the same end with the update branch taken after a create as well
Upserted_both(res, g, u, ctx2) ==
    IF g.created
    THEN Return([u.res EXCEPT !.created = @ + 1], u.nb, ctx2, u.failedCall, g.wrote + u.wrote)
    ELSE Return(u.res, u.nb, ctx2, u.failedCall, u.wrote)

Upserted(res, g, u, ctx2) ==
    IF g.created
    THEN Return([res EXCEPT !.created = @ + 1], g.nb, ctx2, "none", g.wrote)
    ELSE Return(u.res, u.nb, ctx2, u.failedCall, u.wrote)

\* a dict entry that is present only under a condition
Entry(cond, k, v) == IF cond THEN (k :> v) ELSE EmptyDict

\* x or default
OrElse(x, default) == IF Truthy(x) THEN x ELSE default

\* the parameters "if aci_data.get(f): params[nb_field] = aci_data[f]" builds
\* from a table of (source field, destination field)
IfGiven(rec, fields) ==
    [k \in {p[2] : p \in {q \in fields : Truthy(Get(rec, q[1]))}} |->
        rec[(CHOOSE p \in fields : p[2] = k)[1]]]

TextFields == {<<"name_alias", "name_alias">>, <<"description", "description">>}

\* the update set "if getattr(obj, f, None) != value: updates[f] = value"
NotEqual(o, wanted) == Only(wanted, {k \in DOMAIN wanted : ~PyEq(Get(o, k), wanted[k])})

(***************************************************************************)
(* BaseSyncModule helpers.  A field map is the sequence of its items, in   *)
(* insertion order; converters maps a source field to the name of its      *)
(* converter.                                                              *)
(***************************************************************************)
\* converters[aci_field](value), for the converters bool and (lambda v: v or None)
Convert(converters, aci_field, value) ==
    IF aci_field \notin DOMAIN converters THEN value
    ELSE IF converters[aci_field] = "bool" THEN PyBool(Truthy(value))
    ELSE IF Truthy(value) THEN value ELSE PyNone

\* variant: a field is taken whether or not it differs
Differs_always(current, value) == TRUE

\* not values_equal(current, value)
Differs(current, value) == ~values_equal(current, value)

RECURSIVE build_updates_loop(_, _, _, _, _, _)
build_updates_loop(existing_obj, aci_data, field_map, converters, i, updates) ==
    IF i > Len(field_map) THEN updates
    ELSE IF field_map[i][1] \notin DOMAIN aci_data
    THEN build_updates_loop(existing_obj, aci_data, field_map, converters, i + 1, updates)
    ELSE IF aci_data[field_map[i][1]] = PyNone
    THEN build_updates_loop(existing_obj, aci_data, field_map, converters, i + 1, updates)
    ELSE IF Differs(Get(existing_obj, field_map[i][2]), Convert(converters, field_map[i][1], aci_data[field_map[i][1]]))
    THEN build_updates_loop(existing_obj, aci_data, field_map, converters, i + 1, Merge(updates, field_map[i][2] :> Convert(converters, field_map[i][1], aci_data[field_map[i][1]])))
    ELSE build_updates_loop(existing_obj, aci_data, field_map, converters, i + 1, updates)

build_updates(existing_obj, aci_data, field_map, converters, extra_updates) ==
    IF extra_updates /= EmptyDict
    THEN Merge(build_updates_loop(existing_obj, aci_data, field_map, converters, 1, EmptyDict), extra_updates)
    ELSE build_updates_loop(existing_obj, aci_data, field_map, converters, 1, EmptyDict)

\* variant: verified is counted whenever the update function reports it
apply_counted_verified(res, u) ==
    [res |-> IF u.changed
             THEN [res EXCEPT !.updated = @ + 1, !.verified = IF u.verified THEN @ + 1 ELSE @]
             ELSE [res EXCEPT !.unchanged = @ + 1, !.verified = IF u.verified THEN @ + 1 ELSE @],
     nb |-> u.nb]

\* _apply_updates after update_fn returned u = (changed, verified)
apply_counted(res, u) ==
    [res |-> IF u.changed
             THEN [res EXCEPT !.updated = @ + 1, !.verified = IF u.verified THEN @ + 1 ELSE @]
             ELSE [res EXCEPT !.unchanged = @ + 1],
     nb |-> u.nb]

\* _apply_updates(obj, updates, obj_label, update_fn), update_fn being one of
\* NetBoxClient's update_* functions
apply_updates(res, nbs, id, updates, verify, fault) ==
    IF DOMAIN updates /= {}
    THEN apply_counted(res, update_if_changed(nbs, id, updates, verify, fault))
    ELSE [res |-> [res EXCEPT !.unchanged = @ + 1], nb |-> nbs]

(***************************************************************************)
(* String functions, on the strings the source data uses.                  *)
(***************************************************************************)
\* name.replace(' ', '_').replace('/', '_').replace('\\', '_')
SanitizeName(s) ==
    CASE s = "ACI Fabric" -> "ACI_Fabric"
      [] s = "Fab/1"      -> "Fab_1"
      [] OTHER            -> s

\* value.lower()
Lower(s) ==
    CASE s = "N/A"               -> "n/a"
      [] s = "None"              -> "none"
      [] s = "Not-Applicable"    -> "not-applicable"
      [] s = "00:22:BD:F8:19:FF" -> "00:22:bd:f8:19:ff"
      [] OTHER                   -> s

\* ':' in value, '-' in value
HasColon(s) == s \in {"00:22:BD:F8:19:FF", "00:11:22:33:44:ab"}

HasDash(s) == s \in {"not-applicable", "Not-Applicable", "00-11-22-33-44-ab"}

\* addresses and prefixes: a host part, and a mask length after a '/'
Hosts == {"0.0.0.0", "10.0.0.0", "10.1.0.0", "10.0.0.1", "10.0.0.2"}

MaskLengths == {"16", "24", "32"}

\* '/' in s
HasSlash(s) == \E h \in Hosts, m \in MaskLengths : s = h \o "/" \o m

\* s.split('/')[0]
BeforeSlash(s) ==
    IF HasSlash(s) THEN CHOOSE h \in Hosts : \E m \in MaskLengths : s = h \o "/" \o m ELSE s

\* s.split('/')[1], of a string that holds a '/'
AfterSlash(s) == CHOOSE m \in MaskLengths : \E h \in Hosts : s = h \o "/" \o m

\* s.replace('/', '_')
SlashToUnderscore(s) ==
    IF HasSlash(s) THEN BeforeSlash(s) \o "_" \o AfterSlash(s) ELSE s

\* sub in s, for the scope and ctrl strings of a subnet
Contains(s, sub) ==
    CASE sub = "public"             -> s \in {"public", "public,shared"}
      [] sub = "shared"             -> s \in {"shared", "public,shared"}
      [] sub = "nd"                 -> s \in {"nd", "nd,querier"}
      [] sub = "querier"            -> s \in {"querier", "nd,querier"}
      [] sub = "no-default-gateway" -> s \in {"no-default-gateway"}
      [] OTHER                      -> FALSE

\* name.lower().replace(' ', '-')
Slug(s) ==
    CASE s = "Cisco"      -> "cisco"
      [] s = "ACI Leaf"   -> "aci-leaf"
      [] s = "ACI Spine"  -> "aci-spine"
      [] s = "ACI Apic"   -> "aci-apic"
      [] s = "ACI-LEAF"   -> "aci-leaf"
      [] s = "ACI-SPINE"  -> "aci-spine"
      [] s = "ACI-APIC"   -> "aci-apic"
      [] s = "N9K-C9336"  -> "n9k-c9336"
      [] s = "ACI-Fabric" -> "aci-fabric"
      [] s = "ACI_Fabric" -> "aci_fabric"
      [] s = "Fabric1"    -> "fabric1"
      [] OTHER            -> s

\* s.upper(), s.title(), of a role
Upper(s) ==
    CASE s = "leaf" -> "LEAF" [] s = "spine" -> "SPINE" [] s = "apic" -> "APIC" [] OTHER -> s

Title(s) ==
    CASE s = "leaf" -> "Leaf" [] s = "spine" -> "Spine" [] s = "apic" -> "Apic" [] OTHER -> s

(***************************************************************************)
(* FabricSyncModule                                                        *)
(***************************************************************************)
DefaultFabricId == 1
DefaultInfraVlan == 4093

\* the second lookup and the create of get_or_create_fabric
FabricByName(nbs, name, fabric_id, kwargs, fail, byName) ==
    IF fail \/ Cardinality(byName) > 1
    THEN Raised(nbs, IF byName = {} THEN 1 ELSE 0)
    ELSE IF byName /= {} THEN Existing(nbs, byName)
    ELSE Created(nbs, "fabrics",
                 Merge(("name" :> PyStr(name)) @@ ("fabric_id" :> fabric_id), kwargs))

FabricById(nbs, name, fabric_id, kwargs, fail, byId) ==
    IF Cardinality(byId) > 1 THEN Raised(nbs, 0)
    ELSE IF byId /= {} /\ ~fail THEN Existing(nbs, byId)
    ELSE IF byId /= {} THEN Raised(nbs, 0)
    ELSE FabricByName(nbs, name, fabric_id, kwargs, fail,
                      Find(nbs, "fabrics", "name" :> PyStr(name)))

\* NetBoxClient.get_or_create_fabric: by fabric_id, then by name, then create
get_or_create_fabric(nbs, name, fabric_id, kwargs, fail) ==
    FabricById(nbs, name, fabric_id, kwargs, fail,
               Find(nbs, "fabrics", "fabric_id" :> fabric_id))

\* the "else" of "if created": compare fabric_id, infra_vlan_vid, gipo_pool
Fabric_update(res, nbs, id, fabric_id, infra_vlan_id, gipo, settings, fault) ==
    InlineUpdate(res, nbs, id,
        Entry(Truthy(fabric_id) /\ ~PyEq(Get(nbs[id].f, "fabric_id"), fabric_id),
              "fabric_id", fabric_id)
        @@ Entry(Truthy(infra_vlan_id)
                   /\ ~PyEq(Get(nbs[id].f, "infra_vlan_vid"), infra_vlan_id),
                 "infra_vlan_vid", infra_vlan_id)
        @@ Entry(Truthy(gipo) /\ ~PyEq(Get(nbs[id].f, "gipo_pool"), gipo),
                 "gipo_pool", gipo),
        settings.verify_updates, fault)

Fabric_upsert(res, nbs, ctx, g, fabric_name, fabric_id, infra_vlan_id, gipo, settings, fault) ==
    IF g.raised THEN Except(res, nbs, ctx, g.wrote)
    ELSE Upserted(res, g,
             Fabric_update(res, g.nb, g.id, fabric_id, infra_vlan_id, gipo,
                           settings, fault),
             [ctx EXCEPT !.fabric_id = g.id, !.fabric_name = fabric_name])

\* fabric_params (which holds gipo_pool) is built but not passed on: the
\* create gets the name, fabric_id and infra_vlan_vid only
Fabric_named(rec, res, nbs, ctx, settings, fault, fabric_name, fabric_id, infra_vlan_id) ==
    Fabric_upsert(res, nbs, ctx,
        get_or_create_fabric(nbs, fabric_name, fabric_id,
                             "infra_vlan_vid" :> infra_vlan_id, fault = "goc1"),
        fabric_name, fabric_id, infra_vlan_id, Get(rec, "gipo_pool"), settings, fault)

Fabric_sync_object(rec, res, nbs, ctx, settings, fault) ==
    Fabric_named(rec, res, nbs, ctx, settings, fault,
        SanitizeName(OrElse(Get(rec, "name"), PyStr("ACI_Fabric"))[2]),
        OrElse(Get(rec, "fabric_id"), PyInt(DefaultFabricId)),
        OrElse(Get(rec, "infra_vlan_id"), PyInt(DefaultInfraVlan)))

(***************************************************************************)
(* TenantSyncModule                                                        *)
(***************************************************************************)
\* the optional text fields the record carries a value for
Given(rec) == {k \in {"name_alias", "description"} : Truthy(Get(rec, k))}

get_or_create_tenant(nbs, fabric_id, name, kwargs, fail) ==
    get_or_create(nbs, "tenants",
        ("aci_fabric_id" :> PyInt(fabric_id)) @@ ("name" :> name),
        Merge(("aci_fabric" :> PyInt(fabric_id)) @@ ("name" :> name), kwargs),
        fail)

Tenant_update(rec, res, nbs, id, settings, fault) ==
    InlineUpdate(res, nbs, id,
        Only(rec, {k \in Given(rec) : ~PyEq(Get(nbs[id].f, k), rec[k])}),
        settings.verify_updates, fault)

Tenant_upsert(rec, res, nbs, ctx, g, settings, fault) ==
    IF g.raised THEN Except(res, nbs, ctx, g.wrote)
    ELSE Upserted(res, g, Tenant_update(rec, res, g.nb, g.id, settings, fault),
             [ctx EXCEPT !.tenant_map = MapPut(@, rec.name[2], g.id)])

Tenant_sync_object(rec, res, nbs, ctx, settings, fault) ==
    IF ctx.fabric_id = 0 THEN Skip(res, nbs, ctx)
    ELSE IF ~Truthy(Get(rec, "name")) THEN Skip(res, nbs, ctx)
    ELSE Tenant_upsert(rec, res, nbs, ctx,
             get_or_create_tenant(nbs, ctx.fabric_id, rec.name, Only(rec, Given(rec)),
                                  fault = "goc1"),
             settings, fault)

(***************************************************************************)
(* VRFSyncModule                                                           *)
(***************************************************************************)
\* (destination field, source field), the table the create and the update
\* parts of sync_object both go through
VRFFields ==
    {<<"bd_enforcement_enabled", "bd_enforced_enabled">>,
     <<"ip_data_plane_learning_enabled", "ip_data_plane_learning">>,
     <<"pc_enforcement_direction", "pc_enf_dir">>,
     <<"pc_enforcement_preference", "pc_enf_pref">>,
     <<"pim_ipv4_enabled", "pim_v4_enabled">>,
     <<"pim_ipv6_enabled", "pim_v6_enabled">>,
     <<"preferred_group_enabled", "preferred_group">>}

\* the source field a destination field is fed from
AciField(table, nb_field) == (CHOOSE p \in table : p[1] = nb_field)[2]

\* the destination fields of a table whose source field is in the record
Present(table, rec) == {p[1] : p \in {q \in table : q[2] \in DOMAIN rec}}

\* variant: every VRF attribute is passed on as it is
VRFConvert_raw(nb_field, v) == v

\* aci_value == 'enabled' for ip_data_plane_learning, the value otherwise
VRFConvert(nb_field, v) ==
    IF nb_field = "ip_data_plane_learning_enabled"
    THEN PyBool(PyEq(v, PyStr("enabled"))) ELSE v

\* the VRF-specific attributes of the record, under their destination names
VRFAttributes(rec) ==
    [f \in Present(VRFFields, rec) |-> VRFConvert(f, rec[AciField(VRFFields, f)])]

\* name_alias and description as the update part reads them: None becomes ''
VRFText(rec) ==
    [k \in {"name_alias", "description"} \cap DOMAIN rec |->
        IF Tag(rec[k]) = "none" THEN PyStr("") ELSE rec[k]]

\* variant: nothing is ever found to differ
Differing_none(o, wanted) == EmptyDict

\* the entries of `wanted` the object does not hold already (by !=)
Differing(o, wanted) == Only(wanted, {k \in DOMAIN wanted : ~PyEq(Get(o, k), wanted[k])})

get_or_create_vrf(nbs, tenant_id, name, kwargs, fail) ==
    get_or_create(nbs, "vrfs",
        ("aci_tenant_id" :> PyInt(tenant_id)) @@ ("name" :> name),
        Merge(("aci_tenant" :> PyInt(tenant_id)) @@ ("name" :> name), kwargs),
        fail)

VRF_update(rec, res, nbs, id, settings, fault) ==
    InlineUpdate(res, nbs, id,
        Differing(nbs[id].f, Merge(VRFText(rec), VRFAttributes(rec))),
        settings.verify_updates, fault)

VRF_upsert(rec, res, nbs, ctx, g, settings, fault) ==
    IF g.raised THEN Except(res, nbs, ctx, g.wrote)
    ELSE Upserted(res, g, VRF_update(rec, res, g.nb, g.id, settings, fault),
             [ctx EXCEPT !.vrf_map = MapPut(@, <<rec.tenant[2], rec.name[2]>>, g.id)])

VRF_sync_object(rec, res, nbs, ctx, settings, fault) ==
    IF ~Truthy(Get(rec, "tenant")) THEN Skip(res, nbs, ctx)
    ELSE IF MapGet(ctx.tenant_map, rec.tenant[2]) = 0 THEN Skip(res, nbs, ctx)
    ELSE IF ~Truthy(Get(rec, "name")) THEN Skip(res, nbs, ctx)
    ELSE VRF_upsert(rec, res, nbs, ctx,
             get_or_create_vrf(nbs, MapGet(ctx.tenant_map, rec.tenant[2]), rec.name,
                               Merge(Only(rec, Given(rec)), VRFAttributes(rec)),
                               fault = "goc1"),
             settings, fault)

(***************************************************************************)
(* BridgeDomainSyncModule                                                  *)
(***************************************************************************)
\* bd_field_mapping, as (destination field, source field)
BDFields ==
    {<<"arp_flooding_enabled", "arp_flood">>,
     <<"ip_data_plane_learning_enabled", "ip_learning">>,
     <<"limit_ip_learn_enabled", "limit_ip_learn">>,
     <<"mac_address", "mac">>,
     <<"multi_destination_flooding", "multi_dest_pkt_act">>,
     <<"unicast_routing_enabled", "unicast_route">>,
     <<"unknown_unicast", "unk_mac_ucast_act">>,
     <<"unknown_ipv4_multicast", "unk_mcast_act">>,
     <<"unknown_ipv6_multicast", "v6_unk_mcast_act">>,
     <<"virtual_mac_address", "vmac">>,
     <<"pim_ipv4_enabled", "pim_v4_enabled">>,
     <<"advertise_host_routes_enabled", "host_route_adv">>}

\* the MAC filter: empty, a placeholder, or no ':' and no '-' separator
InvalidMac(value) ==
    \/ ~Truthy(value)
    \/ Lower(value[2]) \in {"not-applicable", "n/a", "none", ""}
    \/ (~HasColon(value[2]) /\ ~HasDash(value[2]))

\* the destination fields of bd_field_mapping the record supplies
BDSupplied(rec) ==
    {f \in Present(BDFields, rec) :
        /\ Tag(rec[AciField(BDFields, f)]) /= "none"
        /\ (f \in {"mac_address", "virtual_mac_address"}
              => ~InvalidMac(rec[AciField(BDFields, f)]))}

\* the mapped attributes of the record, under their destination names
BDAttributes(rec) == [f \in BDSupplied(rec) |-> rec[AciField(BDFields, f)]]

\* bd_params['ep_move_detection_enabled'] = aci_data['ep_move_detect'] == 'garp'
BDMoveDetect(rec) ==
    Entry(Truthy(Get(rec, "ep_move_detect")), "ep_move_detection_enabled",
          PyBool(PyEq(Get(rec, "ep_move_detect"), PyStr("garp"))))

\* the key f"{tenant_name}/{name}" of vrf_map and bd_map
Key(tenant_name, name) == <<tenant_name[2], name[2]>>

\* variant: a VRF that is not in vrf_map resolves to the destination's first object
BDVrfId_default(rec, ctx) ==
    IF Truthy(Get(rec, "vrf"))
    THEN (IF Key(rec.tenant, rec.vrf) \in DOMAIN ctx.vrf_map THEN ctx.vrf_map[Key(rec.tenant, rec.vrf)] ELSE 1)
    ELSE 0

\* vrf_map.get(f"{tenant_name}/{vrf_name}") if vrf_name else None
BDVrfId(rec, ctx) ==
    IF Truthy(Get(rec, "vrf"))
    THEN MapGet(ctx.vrf_map, Key(rec.tenant, rec.vrf)) ELSE 0

get_or_create_bridge_domain(nbs, tenant_id, vrf_id, name, kwargs, fail) ==
    get_or_create(nbs, "bridge_domains",
        ("aci_tenant_id" :> PyInt(tenant_id)) @@ ("name" :> name),
        Merge(("aci_tenant" :> PyInt(tenant_id)) @@ ("aci_vrf" :> PyInt(vrf_id))
                @@ ("name" :> name), kwargs),
        fail)

\* variant: the update side checks the placeholders but not the separators
MacRejected_lax(value) ==
    \/ ~Truthy(value)
    \/ Lower(value[2]) \in {"not-applicable", "n/a", "none", ""}

\* the MAC filter of the update loop
MacRejected(value) ==
    \/ ~Truthy(value)
    \/ Lower(value[2]) \in {"not-applicable", "n/a", "none", ""}
    \/ (~HasColon(value[2]) /\ ~HasDash(value[2]))

\* the mapped attributes the update loop compares, under their destination names
BDUpdateAttributes(rec) ==
    [f \in {g \in Present(BDFields, rec) :
                /\ Tag(rec[AciField(BDFields, g)]) /= "none"
                /\ (g \in {"mac_address", "virtual_mac_address"}
                      => ~MacRejected(rec[AciField(BDFields, g)]))}
        |-> rec[AciField(BDFields, f)]]

\* bd_params: name_alias and description when given, the mapped attributes,
\* ep_move_detection_enabled
bd_params(rec) ==
    Merge(Merge(Only(rec, Given(rec)), BDAttributes(rec)), BDMoveDetect(rec))

\* the mapped attributes that differ by values_equal, the text fields that
\* differ by != from (current or '')
BDUpdates(rec, bd, mapped) ==
    Merge(Only(mapped, {f \in DOMAIN mapped : ~values_equal(Get(bd, f), mapped[f])}),
          Only(rec, {k \in Given(rec) : ~PyEq(OrElse(Get(bd, k), PyStr("")), rec[k])}))

BridgeDomain_update(rec, res, nbs, id, settings, fault) ==
    InlineUpdate(res, nbs, id, BDUpdates(rec, nbs[id].f, BDUpdateAttributes(rec)),
                 settings.verify_updates, fault)

BridgeDomain_upsert(rec, res, nbs, ctx, g, settings, fault) ==
    IF g.raised THEN Except(res, nbs, ctx, g.wrote)
    ELSE Upserted(res, g, BridgeDomain_update(rec, res, g.nb, g.id, settings, fault),
             [ctx EXCEPT !.bd_map = MapPut(@, Key(rec.tenant, rec.name), g.id)])

BridgeDomain_sync_object(rec, res, nbs, ctx, settings, fault) ==
    IF ~Truthy(Get(rec, "tenant")) THEN Skip(res, nbs, ctx)
    ELSE IF MapGet(ctx.tenant_map, rec.tenant[2]) = 0 THEN Skip(res, nbs, ctx)
    ELSE IF BDVrfId(rec, ctx) = 0 THEN Skip(res, nbs, ctx)
    ELSE IF ~Truthy(Get(rec, "name")) THEN Skip(res, nbs, ctx)
    ELSE BridgeDomain_upsert(rec, res, nbs, ctx,
             get_or_create_bridge_domain(nbs, MapGet(ctx.tenant_map, rec.tenant[2]),
                 BDVrfId(rec, ctx), rec.name, bd_params(rec),
                 fault = "goc1"),
             settings, fault)

(***************************************************************************)
(* PodSyncModule                                                           *)
(***************************************************************************)
AddWrites(o, w) == [o EXCEPT !.writes = @ + w]

\* the id a foreign key holds: current.id, or current itself, or None
CurrentId(v) ==
    IF Tag(v) = "obj" THEN PyInt(v[2]) ELSE IF Truthy(v) THEN v ELSE PyNone

get_or_create_prefix(nbs, prefix, kwargs, fail) ==
    get_or_create(nbs, "prefixes", "prefix" :> prefix, Merge("prefix" :> prefix, kwargs), fail)

get_or_create_pod(nbs, fabric_id, pod_id, name, kwargs, fail) ==
    get_or_create(nbs, "pods",
        ("aci_fabric_id" :> PyInt(fabric_id)) @@ ("pod_id" :> pod_id),
        Merge(("aci_fabric" :> PyInt(fabric_id)) @@ ("pod_id" :> pod_id) @@ ("name" :> name), kwargs),
        fail)

\* name or f"pod-{pod_id}"
PodName(rec) == OrElse(Get(rec, "name"), PyStr("pod-" \o ToString(rec.pod_id[2])))

\* the mask of the TEP pool, '16' for a pool written without one
PoolMask(tep_pool) == IF HasSlash(tep_pool) THEN AfterSlash(tep_pool) ELSE "16"

Pod_update(res, nbs, id, tep_pool_id, settings, fault) ==
    InlineUpdate(res, nbs, id,
        Entry(tep_pool_id /= 0 /\ ~PyEq(CurrentId(Get(nbs[id].f, "tep_pool")), PyInt(tep_pool_id)),
              "tep_pool", PyInt(tep_pool_id)),
        settings.verify_updates, fault)

Pod_upsert(rec, res, nbs, ctx, g, tep_pool_id, settings, fault) ==
    IF g.raised THEN Except(res, nbs, ctx, g.wrote)
    ELSE Upserted(res, g, Pod_update(res, g.nb, g.id, tep_pool_id, settings, fault),
             [ctx EXCEPT !.pod_map = MapPut(@, rec.pod_id[2], g.id)])

\* the pod has a TEP pool, p is what get_or_create_prefix gave: the pool's
\* mask is stored in the context before the pod is looked up
Pod_with_pool(rec, res, nbs, ctx, p, settings, fault) ==
    IF p.raised THEN Except(res, nbs, ctx, p.wrote)
    ELSE AddWrites(
             Pod_upsert(rec, res, p.nb, [ctx EXCEPT !.tep_pool_mask = PoolMask(rec.tep_pool[2])],
                 get_or_create_pod(p.nb, ctx.fabric_id, rec.pod_id, PodName(rec), "tep_pool" :> PyInt(p.id), fault = "goc1"),
                 p.id, settings, fault),
             p.wrote)

Pod_sync_object(rec, res, nbs, ctx, settings, fault) ==
    IF ctx.fabric_id = 0 THEN Skip(res, nbs, ctx)
    ELSE IF ~Truthy(Get(rec, "pod_id")) THEN Skip(res, nbs, ctx)
    ELSE IF Truthy(Get(rec, "tep_pool"))
    THEN Pod_with_pool(rec, res, nbs, ctx,
             get_or_create_prefix(nbs, rec.tep_pool, "description" :> PyStr("TEP Pool - " \o PodName(rec)[2]), fault = "prefix"),
             settings, fault)
    ELSE Pod_upsert(rec, res, nbs, ctx,
             get_or_create_pod(nbs, ctx.fabric_id, rec.pod_id, PodName(rec), EmptyDict, fault = "goc1"),
             0, settings, fault)

(***************************************************************************)
(* IP addresses of the destination's IPAM.                                 *)
(***************************************************************************)
\* ip_addresses.filter(address=ip_only): the addresses with that host part,
\* whatever their mask
ByHost(nbs, ip_only) ==
    {i \in 1..Len(nbs) : nbs[i].ep = "ip_addresses" /\ BeforeSlash(nbs[i].f.address[2]) = ip_only}

\* existing[0]
First(nbs, found) ==
    [raised |-> FALSE, nb |-> nbs, id |-> CHOOSE i \in found : \A j \in found : i <= j,
     created |-> FALSE, wrote |-> 0]

\* NetBoxClient.get_or_create_ip_address.  fault "ip_filter": the search by
\* host raises (and is passed over); fault "ip": every request for an
\* address raises.
get_or_create_ip_address(nbs, address, kwargs, fault) ==
    IF fault \notin {"ip", "ip_filter"} /\ ByHost(nbs, BeforeSlash(address)) /= {}
    THEN First(nbs, ByHost(nbs, BeforeSlash(address)))
    ELSE get_or_create(nbs, "ip_addresses", "address" :> PyStr(address),
             Merge("address" :> PyStr(address), kwargs), fault = "ip")

(***************************************************************************)
(* NodeSyncModule                                                          *)
(***************************************************************************)
role_mapping(aci_role) ==
    CASE aci_role = "controller" -> "apic"
      [] aci_role = "spine"      -> "spine"
      [] OTHER                   -> "leaf"

\* role_mapping.get(aci_data.get('role', 'leaf').lower(), 'leaf')
NodeRole(rec) ==
    IF "role" \in DOMAIN rec THEN role_mapping(Lower(rec.role[2])) ELSE "leaf"

\* name or f"node-{node_id}"
NodeName(rec) == OrElse(Get(rec, "name"), PyStr("node-" \o ToString(rec.node_id[2])))

\* what the calls before get_or_create_node have given: the destination,
\* the ids obtained, the create requests made, whether a call raised
Obtained(nbs) ==
    [nb |-> nbs, wrote |-> 0, raised |-> FALSE, manufacturer |-> 0, device_type |-> 0,
     site |-> 0, role |-> 0, device |-> 0, tep_ip |-> 0]

Ensured(a, g, field) ==
    IF g.raised THEN [a EXCEPT !.raised = TRUE, !.wrote = @ + g.wrote]
    ELSE [a EXCEPT !.nb = g.nb, !.wrote = @ + g.wrote, ![field] = g.id]

\* one get_or_create_<field> call of the sequence
Ensure(a, ep, lookup, create, field) ==
    IF a.raised THEN a ELSE Ensured(a, get_or_create(a.nb, ep, lookup, create, FALSE), field)

DeviceParams(a, rec) ==
    ("name" :> NodeName(rec)) @@ ("device_type" :> PyInt(a.device_type)) @@ ("site" :> PyInt(a.site))
        @@ ("role" :> PyInt(a.role)) @@ IfGiven(rec, {<<"serial", "serial">>})

get_or_create_dcim_device(a, rec) ==
    Ensure(a, "devices", "name" :> NodeName(rec), DeviceParams(a, rec), "device")

get_or_create_device_role(a, role_name) ==
    Ensure(a, "device_roles", "name" :> PyStr(role_name), ("name" :> PyStr(role_name)) @@ ("slug" :> PyStr(Slug(role_name))), "role")

get_or_create_site(a, name) ==
    Ensure(a, "sites", "name" :> PyStr(name), ("name" :> PyStr(name)) @@ ("slug" :> PyStr(Slug(name))), "site")

get_or_create_device_type(a, model) ==
    Ensure(a, "device_types", "model" :> model, ("manufacturer" :> PyInt(a.manufacturer)) @@ ("model" :> model) @@ ("slug" :> PyStr(Slug(model[2]))), "device_type")

get_or_create_manufacturer(a, name) ==
    Ensure(a, "manufacturers", "name" :> PyStr(name), ("name" :> PyStr(name)) @@ ("slug" :> PyStr(Slug(name))), "manufacturer")

\* manufacturer, device type, site, device role and device of a node
NodeDevice(nbs, rec, ctx) ==
    get_or_create_dcim_device(
        get_or_create_device_role(
            get_or_create_site(
                get_or_create_device_type(
                    get_or_create_manufacturer(Obtained(nbs), "Cisco"),
                    OrElse(Get(rec, "model"), PyStr("ACI-" \o Upper(NodeRole(rec))))),
                IF ctx.fabric_name = "" THEN "ACI-Fabric" ELSE ctx.fabric_name),
            "ACI " \o Title(NodeRole(rec))),
        rec)

\* the node has a usable TEP address
HasTep(rec) == Truthy(Get(rec, "address")) /\ rec.address /= PyStr("0.0.0.0")

\* f"{tep_ip_only}/{tep_pool_mask}", the mask being the one the context
\* holds ('16' when it holds none)
TepAddress(rec, ctx) ==
    BeforeSlash(rec.address[2]) \o "/" \o (IF ctx.tep_pool_mask = "" THEN "16" ELSE ctx.tep_pool_mask)

\* the fallback after get_or_create_ip_address raised:
\* ip_addresses.get(address=tep_ip_only), a failure of which is passed over
TepFallback(a, rec, w, fault) ==
    IF fault /= "ip" /\ Cardinality(ByHost(a.nb, BeforeSlash(rec.address[2]))) = 1
    THEN [a EXCEPT !.wrote = @ + w, !.tep_ip = CHOOSE i \in ByHost(a.nb, BeforeSlash(rec.address[2])) : TRUE]
    ELSE [a EXCEPT !.wrote = @ + w]

TepObtained(a, rec, g, fault) ==
    IF g.raised THEN TepFallback(a, rec, g.wrote, fault)
    ELSE [a EXCEPT !.nb = g.nb, !.wrote = @ + g.wrote, !.tep_ip = g.id]

WithTep(a, rec, ctx, fault) ==
    IF a.raised \/ ~HasTep(rec) THEN a
    ELSE TepObtained(a, rec,
             get_or_create_ip_address(a.nb, TepAddress(rec, ctx), "description" :> PyStr("TEP IP - " \o NodeName(rec)[2]), fault),
             fault)

\* pod_id = aci_data.get('pod_id', 1); pod_map.get(pod_id)
NodePodId(rec, ctx) ==
    IF "pod_id" \notin DOMAIN rec THEN MapGet(ctx.pod_map, 1)
    ELSE IF Tag(rec.pod_id) = "int" THEN MapGet(ctx.pod_map, rec.pod_id[2]) ELSE 0

node_params(a, rec, ctx) ==
    ("aci_pod" :> PyInt(NodePodId(rec, ctx))) @@ ("role" :> PyStr(NodeRole(rec)))
        @@ ("node_type" :> PyStr("virtual")) @@ ("node_object_type" :> PyStr("dcim.device"))
        @@ ("node_object_id" :> PyInt(a.device))
        @@ Entry(a.tep_ip /= 0, "tep_ip_address", PyInt(a.tep_ip))

\* NetBoxClient.get_or_create_node: by node_id, then by name, then create
NodeByName(nbs, create, fail, found) ==
    GetThenCreate(nbs, "nodes", found, create, fail)

NodeById(nbs, fabric_id, name, create, fail, found) ==
    IF fail \/ Cardinality(found) > 1 THEN Raised(nbs, 0)
    ELSE IF found /= {} THEN Existing(nbs, found)
    ELSE NodeByName(nbs, create, fail, Find(nbs, "nodes", ("aci_fabric_id" :> PyInt(fabric_id)) @@ ("name" :> name)))

get_or_create_node(nbs, fabric_id, node_id, name, kwargs, fail) ==
    NodeById(nbs, fabric_id, name,
        Merge(("aci_fabric" :> PyInt(fabric_id)) @@ ("node_id" :> node_id) @@ ("name" :> name), kwargs),
        fail,
        Find(nbs, "nodes", ("aci_fabric_id" :> PyInt(fabric_id)) @@ ("node_id" :> node_id)))

\* str(current_role) if current_role else ''
RoleStr(v) == IF Truthy(v) THEN v ELSE PyStr("")

Node_update(a, rec, res, nbs, id, settings, fault) ==
    InlineUpdate(res, nbs, id,
        Entry(~PyEq(RoleStr(Get(nbs[id].f, "role")), PyStr(NodeRole(rec))), "role", PyStr(NodeRole(rec)))
        @@ Entry(a.tep_ip /= 0 /\ ~PyEq(CurrentId(Get(nbs[id].f, "tep_ip_address")), PyInt(a.tep_ip)),
                 "tep_ip_address", PyInt(a.tep_ip)),
        settings.verify_updates, fault)

Node_upsert(a, rec, res, ctx, g, settings, fault) ==
    IF g.raised THEN Except(res, a.nb, ctx, a.wrote + g.wrote)
    ELSE AddWrites(
             Upserted(res, g, Node_update(a, rec, res, g.nb, g.id, settings, fault),
                 [ctx EXCEPT !.node_map = MapPut(@, rec.node_id[2], g.id)]),
             a.wrote)

\* a is what the calls for the device and the TEP address gave
Node_with_device(a, rec, res, nbs, ctx, settings, fault) ==
    IF a.raised THEN Except(res, a.nb, ctx, a.wrote)
    ELSE Node_upsert(a, rec, res, ctx,
             get_or_create_node(a.nb, ctx.fabric_id, rec.node_id, NodeName(rec), node_params(a, rec, ctx), fault = "goc1"),
             settings, fault)

Node_sync_object(rec, res, nbs, ctx, settings, fault) ==
    IF ctx.fabric_id = 0 THEN Skip(res, nbs, ctx)
    ELSE IF ~Truthy(Get(rec, "node_id")) THEN Skip(res, nbs, ctx)
    ELSE IF NodePodId(rec, ctx) = 0 THEN Skip(res, nbs, ctx)
    ELSE IF "role" \in DOMAIN rec /\ Tag(rec.role) /= "str" THEN Except(res, nbs, ctx, 0)
    ELSE Node_with_device(WithTep(NodeDevice(nbs, rec, ctx), rec, ctx, fault), rec, res, nbs, ctx, settings, fault)

(***************************************************************************)
(* SubnetSyncModule                                                        *)
(***************************************************************************)
\* name or f"{bd_name}-{subnet_ip.replace('/', '_')}"
SubnetName(rec) ==
    OrElse(Get(rec, "name"), PyStr(rec.bridge_domain[2] \o "-" \o SlashToUnderscore(rec.ip[2])))

\* aci_data[f] or ''
OrEmpty(rec, f) == IF Truthy(rec[f]) THEN rec[f][2] ELSE ""

subnet_params(rec) ==
    ("name" :> SubnetName(rec)) @@ IfGiven(rec, TextFields)
    @@ Entry("preferred" \in DOMAIN rec, "preferred_ip_address_enabled", Get(rec, "preferred"))
    @@ (IF "scope" \in DOMAIN rec
        THEN ("advertised_externally_enabled" :> PyBool(Contains(OrEmpty(rec, "scope"), "public")))
             @@ ("shared_enabled" :> PyBool(Contains(OrEmpty(rec, "scope"), "shared")))
        ELSE EmptyDict)
    @@ Entry("virtual" \in DOMAIN rec, "virtual_ip_enabled", Get(rec, "virtual"))
    @@ (IF "ctrl" \in DOMAIN rec
        THEN ("no_default_svi_gateway" :> PyBool(Contains(OrEmpty(rec, "ctrl"), "no-default-gateway")))
             @@ ("nd_ra_enabled" :> PyBool(Contains(OrEmpty(rec, "ctrl"), "nd")))
             @@ ("igmp_querier_enabled" :> PyBool(Contains(OrEmpty(rec, "ctrl"), "querier")))
        ELSE EmptyDict)

\* the update set "if not values_equal(getattr(obj, k, None), v): updates[k] = v"
NotValuesEqual(o, wanted) ==
    Only(wanted, {k \in DOMAIN wanted : ~values_equal(Get(o, k), wanted[k])})

\* variant: the bridge domain's id is used as the gateway key
get_or_create_subnet_bd(nbs, bd_id, gateway_ip, kwargs, fail) ==
    get_or_create(nbs, "bridge_domain_subnets",
        "gateway_ip_address_id" :> PyInt(bd_id),
        Merge(("aci_bridge_domain" :> PyInt(bd_id)) @@ ("gateway_ip_address" :> PyInt(bd_id)), kwargs),
        fail)

\* looked up by the gateway address alone
get_or_create_subnet(nbs, bd_id, gateway_ip, kwargs, fail) ==
    get_or_create(nbs, "bridge_domain_subnets",
        "gateway_ip_address_id" :> PyInt(gateway_ip),
        Merge(("aci_bridge_domain" :> PyInt(bd_id)) @@ ("gateway_ip_address" :> PyInt(gateway_ip)), kwargs),
        fail)

Subnet_upsert(rec, res, nbs, ctx, g, w, settings, fault) ==
    IF g.raised THEN Except(res, nbs, ctx, w + g.wrote)
    ELSE AddWrites(
             Upserted(res, g,
                 InlineUpdate(res, g.nb, g.id, NotValuesEqual(g.nb[g.id].f, subnet_params(rec)), settings.verify_updates, fault),
                 ctx),
             w)

\* ip is what get_or_create_ip_address gave for the gateway address
Subnet_with_ip(rec, res, nbs, ctx, ip, settings, fault) ==
    IF ip.raised THEN Except(res, nbs, ctx, ip.wrote)
    ELSE Subnet_upsert(rec, res, ip.nb, ctx,
             get_or_create_subnet(ip.nb, MapGet(ctx.bd_map, Key(rec.tenant, rec.bridge_domain)), ip.id, subnet_params(rec), fault = "goc1"),
             ip.wrote, settings, fault)

Subnet_sync_object(rec, res, nbs, ctx, settings, fault) ==
    IF ~Truthy(Get(rec, "tenant")) \/ ~Truthy(Get(rec, "bridge_domain")) THEN Skip(res, nbs, ctx)
    ELSE IF MapGet(ctx.bd_map, Key(rec.tenant, rec.bridge_domain)) = 0 THEN Skip(res, nbs, ctx)
    ELSE IF ~Truthy(Get(rec, "ip")) THEN Skip(res, nbs, ctx)
    ELSE Subnet_with_ip(rec, res, nbs, ctx,
             get_or_create_ip_address(nbs, rec.ip[2], "description" :> PyStr("BD Subnet Gateway - " \o rec.bridge_domain[2]), fault),
             settings, fault)

(***************************************************************************)
(* EPGSyncModule                                                           *)
(***************************************************************************)
epg_field_mapping ==
    {<<"pref_gr_memb", "preferred_group_member_enabled">>, <<"prio", "qos_class">>,
     <<"flood_on_encap", "flood_in_encapsulation_enabled">>, <<"shutdown", "admin_shutdown">>}

\* the mapped attributes the record holds, pref_gr_memb as "== 'include'"
EPGAttributes(rec) ==
    [k \in {p[2] : p \in {q \in epg_field_mapping : q[1] \in DOMAIN rec}} |->
        IF k = "preferred_group_member_enabled"
        THEN PyBool(rec.pref_gr_memb = PyStr("include"))
        ELSE rec[(CHOOSE p \in epg_field_mapping : p[2] = k)[1]]]

epg_params(rec) ==
    IfGiven(rec, TextFields) @@ EPGAttributes(rec)
    @@ Entry(Get(rec, "pc_enf_pref") = PyStr("enforced"), "intra_epg_isolation_enabled", PyBool(TRUE))

\* (getattr(obj, f, None) or '') != value
NotEqualOrEmpty(o, wanted) ==
    Only(wanted, {k \in DOMAIN wanted : ~PyEq(OrElse(Get(o, k), PyStr("")), wanted[k])})

get_or_create_epg(nbs, ap_id, bd_id, name, kwargs, fail) ==
    get_or_create(nbs, "endpoint_groups",
        ("aci_app_profile_id" :> PyInt(ap_id)) @@ ("name" :> name),
        Merge(("aci_app_profile" :> PyInt(ap_id)) @@ ("aci_bridge_domain" :> PyInt(bd_id)) @@ ("name" :> name), kwargs),
        fail)

\* the update set of an existing EPG: the mapped attributes and the two
\* text fields
EPGUpdates(o, rec) ==
    NotValuesEqual(o, EPGAttributes(rec)) @@ NotEqualOrEmpty(o, IfGiven(rec, TextFields))

EPG_upsert(rec, res, nbs, ctx, g, settings, fault) ==
    IF g.raised THEN Except(res, nbs, ctx, g.wrote)
    ELSE Upserted(res, g,
             InlineUpdate(res, g.nb, g.id, EPGUpdates(g.nb[g.id].f, rec), settings.verify_updates, fault),
             [ctx EXCEPT !.epg_map = MapPut(@, <<rec.tenant[2], rec.app_profile[2], rec.name[2]>>, g.id)])

\* bd_map.get(f"{tenant_name}/{bd_name}") if bd_name else None
EPGBdId(rec, ctx) ==
    IF Truthy(Get(rec, "bridge_domain"))
    THEN MapGet(ctx.bd_map, Key(rec.tenant, rec.bridge_domain)) ELSE 0

EPG_sync_object(rec, res, nbs, ctx, settings, fault) ==
    IF ~Truthy(Get(rec, "tenant")) \/ ~Truthy(Get(rec, "app_profile")) THEN Skip(res, nbs, ctx)
    ELSE IF MapGet(ctx.ap_map, Key(rec.tenant, rec.app_profile)) = 0 THEN Skip(res, nbs, ctx)
    ELSE IF EPGBdId(rec, ctx) = 0 THEN Skip(res, nbs, ctx)
    ELSE IF ~Truthy(Get(rec, "name")) THEN Skip(res, nbs, ctx)
    ELSE IF Truthy(Get(rec, "is_attr_based_epg")) THEN Return(res, nbs, ctx, "none", 0)
    ELSE EPG_upsert(rec, res, nbs, ctx,
             get_or_create_epg(nbs, MapGet(ctx.ap_map, Key(rec.tenant, rec.app_profile)), EPGBdId(rec, ctx), rec.name, epg_params(rec), fault = "goc1"),
             settings, fault)

(***************************************************************************)
(* ESGSyncModule                                                           *)
(***************************************************************************)
esg_params(rec) ==
    IfGiven(rec, TextFields)
    @@ Entry(Truthy(Get(rec, "pref_gr_memb")), "preferred_group_member_enabled", PyBool(Get(rec, "pref_gr_memb") = PyStr("include")))
    @@ IfGiven(rec, {<<"prio", "qos_class">>})
    @@ Entry("shutdown" \in DOMAIN rec, "admin_shutdown", Get(rec, "shutdown"))

\* vrf_map.get(f"{tenant_name}/{vrf_name}") if vrf_name else None: a VRF
\* that does not resolve is sent as None
ESGVrf(rec, ctx) ==
    IF Truthy(Get(rec, "vrf")) /\ MapGet(ctx.vrf_map, Key(rec.tenant, rec.vrf)) /= 0
    THEN PyInt(MapGet(ctx.vrf_map, Key(rec.tenant, rec.vrf))) ELSE PyNone

get_or_create_esg(nbs, ap_id, vrf_id, name, kwargs, fail) ==
    get_or_create(nbs, "endpoint_security_groups",
        ("aci_app_profile_id" :> PyInt(ap_id)) @@ ("name" :> name),
        Merge(("aci_app_profile" :> PyInt(ap_id)) @@ ("aci_vrf" :> vrf_id) @@ ("name" :> name), kwargs),
        fail)

\* the qos_class is not among the fields an update compares
ESGUpdates(o, rec) == NotEqual(o, [k \in DOMAIN esg_params(rec) \ {"qos_class"} |-> esg_params(rec)[k]])

ESG_upsert(rec, res, nbs, ctx, g, settings, fault) ==
    IF g.raised THEN Except(res, nbs, ctx, g.wrote)
    ELSE Upserted(res, g,
             InlineUpdate(res, g.nb, g.id, ESGUpdates(g.nb[g.id].f, rec), settings.verify_updates, fault),
             [ctx EXCEPT !.esg_map = MapPut(@, <<rec.tenant[2], rec.app_profile[2], rec.name[2]>>, g.id)])

ESG_sync_object(rec, res, nbs, ctx, settings, fault) ==
    IF ~Truthy(Get(rec, "tenant")) \/ ~Truthy(Get(rec, "app_profile")) THEN Skip(res, nbs, ctx)
    ELSE IF MapGet(ctx.ap_map, Key(rec.tenant, rec.app_profile)) = 0 THEN Skip(res, nbs, ctx)
    ELSE IF ~Truthy(Get(rec, "name")) THEN Skip(res, nbs, ctx)
    ELSE ESG_upsert(rec, res, nbs, ctx,
             get_or_create_esg(nbs, MapGet(ctx.ap_map, Key(rec.tenant, rec.app_profile)), ESGVrf(rec, ctx), rec.name, esg_params(rec), fault = "goc1"),
             settings, fault)

(***************************************************************************)
(* AppProfileSyncModule, ContractFilterSyncModule, ContractSyncModule: an  *)
(* object of a tenant, found by (tenant id, name).                         *)
(***************************************************************************)
\* get_or_create_app_profile / _contract_filter / _contract
get_or_create_in_tenant(nbs, ep, tenant_id, name, kwargs, fail) ==
    get_or_create(nbs, ep,
        ("aci_tenant_id" :> PyInt(tenant_id)) @@ ("name" :> name),
        Merge(("aci_tenant" :> PyInt(tenant_id)) @@ ("name" :> name), kwargs),
        fail)

AppProfile_upsert(rec, res, nbs, ctx, g, settings, fault) ==
    IF g.raised THEN Except(res, nbs, ctx, g.wrote)
    ELSE Upserted(res, g,
             InlineUpdate(res, g.nb, g.id, NotEqual(g.nb[g.id].f, IfGiven(rec, TextFields)), settings.verify_updates, fault),
             [ctx EXCEPT !.ap_map = MapPut(@, Key(rec.tenant, rec.name), g.id)])

AppProfile_sync_object(rec, res, nbs, ctx, settings, fault) ==
    IF ~Truthy(Get(rec, "tenant")) THEN Skip(res, nbs, ctx)
    ELSE IF MapGet(ctx.tenant_map, rec.tenant[2]) = 0 THEN Skip(res, nbs, ctx)
    ELSE IF ~Truthy(Get(rec, "name")) THEN Skip(res, nbs, ctx)
    ELSE AppProfile_upsert(rec, res, nbs, ctx,
             get_or_create_in_tenant(nbs, "app_profiles", MapGet(ctx.tenant_map, rec.tenant[2]), rec.name, IfGiven(rec, TextFields), fault = "goc1"),
             settings, fault)

\* _sync_filter_entry: the attributes that are given and not 'unspecified'
EntryFields ==
    {<<"etherT", "ether_type">>, <<"prot", "ip_protocol">>,
     <<"dFromPort", "destination_port_from">>, <<"dToPort", "destination_port_to">>,
     <<"sFromPort", "source_port_from">>, <<"sToPort", "source_port_to">>}

Specified(entry) == Only(entry, {k \in DOMAIN entry : entry[k] /= PyStr("unspecified")})

\* _sync_filter_entry: a failure is logged, nothing is counted
sync_filter_entry(nbs, filter_id, entry) ==
    IF ~Truthy(Get(entry, "name")) THEN nbs
    ELSE get_or_create(nbs, "contract_filter_entries",
             ("aci_contract_filter_id" :> PyInt(filter_id)) @@ ("name" :> entry.name),
             Merge(("aci_contract_filter" :> PyInt(filter_id)) @@ ("name" :> entry.name), IfGiven(Specified(entry), EntryFields)),
             FALSE).nb

RECURSIVE sync_filter_entries(_, _, _, _)
sync_filter_entries(nbs, filter_id, entries, i) ==
    IF i > Len(entries) THEN nbs
    ELSE sync_filter_entries(sync_filter_entry(nbs, filter_id, entries[i]), filter_id, entries, i + 1)

\* the entries are synced after the filter was counted and stored in filter_map
WithEntries(o, rec, id) ==
    [o EXCEPT !.nb = sync_filter_entries(o.nb, id, rec.entries, 1),
              !.writes = @ + (Len(sync_filter_entries(o.nb, id, rec.entries, 1)) - Len(o.nb))]

ContractFilter_upsert(rec, res, nbs, ctx, g, settings, fault) ==
    IF g.raised THEN Except(res, nbs, ctx, g.wrote)
    ELSE WithEntries(
             Upserted(res, g,
                 InlineUpdate(res, g.nb, g.id, NotEqual(g.nb[g.id].f, IfGiven(rec, TextFields)), settings.verify_updates, fault),
                 [ctx EXCEPT !.filter_map = MapPut(@, Key(rec.tenant, rec.name), g.id)]),
             rec, g.id)

ContractFilter_sync_object(rec, res, nbs, ctx, settings, fault) ==
    IF ~Truthy(Get(rec, "tenant")) THEN Skip(res, nbs, ctx)
    ELSE IF MapGet(ctx.tenant_map, rec.tenant[2]) = 0 THEN Skip(res, nbs, ctx)
    ELSE IF ~Truthy(Get(rec, "name")) THEN Skip(res, nbs, ctx)
    ELSE ContractFilter_upsert(rec, res, nbs, ctx,
             get_or_create_in_tenant(nbs, "contract_filters", MapGet(ctx.tenant_map, rec.tenant[2]), rec.name, IfGiven(rec, TextFields), fault = "goc1"),
             settings, fault)

ContractFields ==
    TextFields \cup {<<"scope", "scope">>, <<"prio", "qos_class">>, <<"target_dscp", "target_dscp">>}

\* _sync_subject, g being what get_or_create_contract_subject gave: an
\* existing subject gets its description updated, the subject's id is
\* stored in subject_map
subject_synced(o, g, key, subject, verify) ==
    [o EXCEPT !.nb = IF g.created THEN g.nb
                     ELSE update_if_changed(g.nb, g.id, NotEqual(g.nb[g.id].f, IfGiven(subject, {<<"description", "description">>})), verify, "none").nb,
              !.writes = @ + IF g.created THEN 1
                             ELSE update_if_changed(g.nb, g.id, NotEqual(g.nb[g.id].f, IfGiven(subject, {<<"description", "description">>})), verify, "none").wrote,
              !.ctx = [@ EXCEPT !.subject_map = MapPut(@, key, g.id)]]

sync_subject(o, contract_id, rec, subject, verify) ==
    IF ~Truthy(Get(subject, "name")) THEN o
    ELSE subject_synced(o,
             get_or_create(o.nb, "contract_subjects",
                 ("aci_contract_id" :> PyInt(contract_id)) @@ ("name" :> subject.name),
                 Merge(("aci_contract" :> PyInt(contract_id)) @@ ("name" :> subject.name), IfGiven(subject, {<<"description", "description">>})),
                 FALSE),
             <<rec.tenant[2], rec.name[2], subject.name[2]>>, subject, verify)

RECURSIVE sync_subjects(_, _, _, _, _)
sync_subjects(o, contract_id, rec, i, verify) ==
    IF i > Len(rec.subjects) THEN o
    ELSE sync_subjects(sync_subject(o, contract_id, rec, rec.subjects[i], verify), contract_id, rec, i + 1, verify)

Contract_upsert(rec, res, nbs, ctx, g, settings, fault) ==
    IF g.raised THEN Except(res, nbs, ctx, g.wrote)
    ELSE sync_subjects(
             Upserted(res, g,
                 InlineUpdate(res, g.nb, g.id, NotEqual(g.nb[g.id].f, IfGiven(rec, ContractFields)), settings.verify_updates, fault),
                 [ctx EXCEPT !.contract_map = MapPut(@, Key(rec.tenant, rec.name), g.id)]),
             g.id, rec, 1, settings.verify_updates)

Contract_sync_object(rec, res, nbs, ctx, settings, fault) ==
    IF ~Truthy(Get(rec, "tenant")) THEN Skip(res, nbs, ctx)
    ELSE IF MapGet(ctx.tenant_map, rec.tenant[2]) = 0 THEN Skip(res, nbs, ctx)
    ELSE IF ~Truthy(Get(rec, "name")) THEN Skip(res, nbs, ctx)
    ELSE Contract_upsert(rec, res, nbs, ctx,
             get_or_create_in_tenant(nbs, "contracts", MapGet(ctx.tenant_map, rec.tenant[2]), rec.name, IfGiven(rec, ContractFields), fault = "goc1"),
             settings, fault)

(***************************************************************************)
(* ContractRelationshipSyncModule.  A relationship record holds plain      *)
(* strings, "" standing for None (every test on them is "if not x").       *)
(***************************************************************************)
\* role_map.get(role, role)
netbox_role(role) ==
    CASE role = "provider" -> "prov"
      [] role = "consumer" -> "cons"
      [] OTHER             -> role

\* variant: the common tenant's contract is preferred
RelContractId_common(rec, ctx) ==
    IF MapGet(ctx.contract_map, <<"common", rec.contract>>) /= 0
    THEN MapGet(ctx.contract_map, <<"common", rec.contract>>)
    ELSE MapGet(ctx.contract_map, <<rec.tenant, rec.contract>>)

\* contract_map[tenant/contract], else contract_map[common/contract]
RelContractId(rec, ctx) ==
    IF MapGet(ctx.contract_map, <<rec.tenant, rec.contract>>) /= 0
    THEN MapGet(ctx.contract_map, <<rec.tenant, rec.contract>>)
    ELSE MapGet(ctx.contract_map, <<"common", rec.contract>>)

\* tenant_map[tenant], or tenant_map.get('common', tenant_id) when the
\* contract was found under the common tenant
RelTenantId(rec, ctx) ==
    IF /\ MapGet(ctx.contract_map, <<rec.tenant, rec.contract>>) = 0
       /\ MapGet(ctx.contract_map, <<"common", rec.contract>>) /= 0
       /\ "common" \in DOMAIN ctx.tenant_map
    THEN ctx.tenant_map["common"]
    ELSE MapGet(ctx.tenant_map, rec.tenant)

\* an early "return False"
RelSkip(res, links, cache) ==
    [ret |-> FALSE, res |-> res, links |-> links, cache |-> cache, posts |-> 0, attempted |-> FALSE]

\* variant: a link that was not created counts as failed
rel_counted_failed(res, r) ==
    [ret |-> TRUE,
     res |-> IF r.ret THEN [res EXCEPT !.created = @ + 1] ELSE [res EXCEPT !.failed = @ + 1],
     links |-> r.links, cache |-> r.cache, posts |-> r.posts, attempted |-> TRUE]

\* "if created: created += 1 else: unchanged += 1", then "return True"
rel_counted(res, r) ==
    [ret |-> TRUE,
     res |-> IF r.ret THEN [res EXCEPT !.created = @ + 1] ELSE [res EXCEPT !.unchanged = @ + 1],
     links |-> r.links, cache |-> r.cache, posts |-> r.posts, attempted |-> TRUE]

ContractRelationship_vzany(rec, res, links, cache, ctx, fault) ==
    IF rec.vrf = "" THEN RelSkip(res, links, cache)
    ELSE IF MapGet(ctx.vrf_map, <<rec.tenant, rec.vrf>>) = 0 THEN RelSkip(res, links, cache)
    ELSE rel_counted(res, create_vrf_contract_relation(links, cache, MapGet(ctx.vrf_map, <<rec.tenant, rec.vrf>>), RelContractId(rec, ctx), netbox_role(rec.role), RelTenantId(rec, ctx), fault))

ContractRelationship_epg(rec, res, links, cache, ctx, fault) ==
    IF rec.ap = "" \/ rec.epg = "" THEN RelSkip(res, links, cache)
    ELSE IF MapGet(ctx.epg_map, <<rec.tenant, rec.ap, rec.epg>>) = 0 THEN RelSkip(res, links, cache)
    ELSE rel_counted(res, create_contract_relation(links, cache, RelContractId(rec, ctx), MapGet(ctx.epg_map, <<rec.tenant, rec.ap, rec.epg>>), netbox_role(rec.role), RelTenantId(rec, ctx), 0, fault))

ContractRelationship_sync_object(rec, res, links, cache, ctx, fault) ==
    IF rec.contract = "" \/ rec.tenant = "" \/ rec.role = "" THEN RelSkip(res, links, cache)
    ELSE IF RelContractId(rec, ctx) = 0 THEN RelSkip(res, links, cache)
    ELSE IF rec.is_vzany THEN ContractRelationship_vzany(rec, res, links, cache, ctx, fault)
    ELSE ContractRelationship_epg(rec, res, links, cache, ctx, fault)

\* fetch_from_aci: the providers, then the consumers, each with its role
ContractRelationship_fetch(relationships) ==
    [i \in 1..Len(relationships.providers) |-> [relationships.providers[i] EXCEPT !.role = "provider"]]
        \o [i \in 1..Len(relationships.consumers) |-> [relationships.consumers[i] EXCEPT !.role = "consumer"]]

\* the relations the destination holds, and a relation as one of its objects
Links(objects) == [i \in 1..Len(objects) |-> objects[i].f]

LinksOf(nbs) == Links(SelectSeq(nbs, LAMBDA o : o.ep = "contract_relations"))

\* what a ContractRelationship sync_object did, r, on a destination nbs that
\* held n relations before
RelOutcome(r, nbs, ctx, n) ==
    [ret |-> r.ret, raised |-> FALSE, res |-> r.res,
     nb |-> nbs \o [i \in 1..(Len(r.links) - n) |-> [ep |-> "contract_relations", f |-> r.links[n + i]]],
     ctx |-> ctx, skipped |-> ~r.attempted, failedCall |-> "none", writes |-> r.posts]

\* sync_object of the module within a run: the relation list is read from
\* the destination, which this client alone writes to during the run
ContractRelationship_in_run(rec, res, nbs, ctx, fault) ==
    RelOutcome(
        ContractRelationship_sync_object(rec, res, LinksOf(nbs), NoCache, ctx, IF fault = "goc1" THEN "post_raise" ELSE "none"),
        nbs, ctx, Len(LinksOf(nbs)))

(***************************************************************************)
(* SoftwareVersionSyncModule.post_sync.  NetBoxClient defines none of      *)
(* get_dcim_device_by_name, get_device_type_by_model and                   *)
(* assign_golden_image: on it a call of one raises AttributeError.  A      *)
(* client with client.tracker set has them: the two lookups read the       *)
(* devices and device types of the destination, assign_golden_image does   *)
(* what client.assign says ("ok", "refused" or "raise").                   *)
(***************************************************************************)
\* d.get(k, default)
GetOr(d, k, default) == IF k \in DOMAIN d THEN d[k] ELSE default

\* getattr(self, '_firmware_details', {}).get(version, {})
FirmwareDetails(fw, version) == IF version \in DOMAIN fw THEN fw[version] ELSE EmptyDict

\* firmware_context['firmware']
firmware_context(node, details) ==
    ("version" :> node.version) @@ ("model" :> GetOr(node, "model", PyStr("")))
    @@ ("serial" :> GetOr(node, "serial", PyStr("")))
    @@ Entry(Truthy(Get(details, "filename")), "filename", Get(details, "filename"))
    @@ Entry(Truthy(Get(details, "checksum")), "checksum", Get(details, "checksum"))

\* getattr(device, 'local_context_data', None) or {}
LocalContext(device) ==
    IF "local_context_data" \in DOMAIN device /\ Tag(device.local_context_data) = "dict"
    THEN device.local_context_data[2] ELSE EmptyDict

\* variant: the blob is replaced by the firmware entry alone
stamp_device_replace(st, id, firmware) ==
    IF GetOr(LocalContext(st.nb[id].f), "firmware", EmptyDict) = firmware THEN st
    ELSE [st EXCEPT !.nb[id].f = Merge(@, "local_context_data" :> <<"dict", "firmware" :> firmware>>),
                    !.stamped = Append(@, [id |-> id, before |-> LocalContext(st.nb[id].f), firmware |-> firmware]),
                    !.devices_updated = @ + 1]

\* device.update({'local_context_data': merged_ctx}) when the firmware entry
\* differs; the other keys of local_context_data are kept.  stamped holds
\* the updates issued.
stamp_device(st, id, firmware) ==
    IF GetOr(LocalContext(st.nb[id].f), "firmware", EmptyDict) = firmware THEN st
    ELSE [st EXCEPT !.nb[id].f = Merge(@, "local_context_data" :> <<"dict", Merge(LocalContext(st.nb[id].f), "firmware" :> firmware)>>),
                    !.stamped = Append(@, [id |-> id, before |-> LocalContext(st.nb[id].f), firmware |-> firmware]),
                    !.devices_updated = @ + 1]

\* step 1 for one node; every exception is passed over
stamp_node(st, node, fw, client, found) ==
    IF ~Truthy(Get(node, "version")) \/ ~Truthy(Get(node, "name")) THEN st
    ELSE IF ~client.tracker \/ Cardinality(found) /= 1 THEN st
    ELSE stamp_device(st, CHOOSE i \in found : TRUE, firmware_context(node, FirmwareDetails(fw, node.version[2])))

RECURSIVE stamp_devices(_, _, _, _, _)
stamp_devices(st, nodes, i, fw, client) ==
    IF i > Len(nodes) THEN st
    ELSE stamp_devices(stamp_node(st, nodes[i], fw, client, Find(st.nb, "devices", "name" :> Get(nodes[i], "name"))), nodes, i + 1, fw, client)

\* f"{model}:{version}"
golden_key(model, version) == model[2] \o ":" \o version[2]

\* variant: no model+version combination counts as handled
already_handled_never(key, seen_device_types) == FALSE

\* "if key in seen_device_types: continue"
already_handled(key, seen_device_types) == key \in seen_device_types

\* assign_golden_image was invoked for the node
golden_invoked(st, node, sw_image_id, device_type_id, client) ==
    [st EXCEPT !.invoked = Append(@, [model |-> node.model[2], version |-> node.version[2], software_image_id |-> sw_image_id, device_type_id |-> device_type_id]),
               !.assigned = IF client.assign = "ok" THEN @ + 1 ELSE @,
               !.nb = IF client.assign = "ok"
                      THEN Append(@, [ep |-> "golden_images", f |-> [software |-> PyObj(sw_image_id), device_type |-> PyObj(device_type_id)]])
                      ELSE @]

\* the try block of step 2: the device type of the model, then the assignment
golden_assign(st, node, sw_image_id, client, found) ==
    IF ~client.tracker \/ Cardinality(found) /= 1 THEN st
    ELSE golden_invoked(st, node, sw_image_id, CHOOSE i \in found : TRUE, client)

\* step 2 for one node, the key being new
golden_new(st, node, sw_version_map, client) ==
    IF MapGet(sw_version_map, node.version[2]) = 0 THEN st
    ELSE golden_assign(st, node, MapGet(sw_version_map, node.version[2]), client, Find(st.nb, "device_types", "model" :> node.model))

\* step 2 for one node
golden_node(st, node, sw_version_map, client) ==
    IF ~Truthy(Get(node, "version")) \/ ~Truthy(Get(node, "model")) THEN st
    ELSE IF already_handled(golden_key(node.model, node.version), st.seen_device_types) THEN st
    ELSE golden_new([st EXCEPT !.seen_device_types = @ \cup {golden_key(node.model, node.version)}], node, sw_version_map, client)

(***************************************************************************)
(* The module classes and the orchestrator.                                *)
(***************************************************************************)
SYNC_MODULE_ORDER ==
    <<"FabricSyncModule", "PodSyncModule", "NodeSyncModule", "TenantSyncModule",
      "VRFSyncModule", "BridgeDomainSyncModule", "SubnetSyncModule",
      "AppProfileSyncModule", "EPGSyncModule", "ESGSyncModule",
      "ContractFilterSyncModule", "ContractSyncModule",
      "ContractRelationshipSyncModule">>

\* BaseSyncModule is abstract: instantiating it raises TypeError
Abstract(cls) == cls = "BaseSyncModule"

object_type(cls) ==
    CASE cls = "FabricSyncModule"       -> "Fabric"
      [] cls = "TenantSyncModule"       -> "Tenant"
      [] cls = "VRFSyncModule"          -> "VRF"
      [] cls = "BridgeDomainSyncModule" -> "BridgeDomain"
      [] cls = "PodSyncModule"          -> "Pod"
      [] cls = "NodeSyncModule"         -> "Node"
      [] cls = "SubnetSyncModule"       -> "Subnet"
      [] cls = "AppProfileSyncModule"   -> "ApplicationProfile"
      [] cls = "EPGSyncModule"          -> "EndpointGroup"
      [] cls = "ESGSyncModule"          -> "EndpointSecurityGroup"
      [] cls = "ContractFilterSyncModule" -> "ContractFilter"
      [] cls = "ContractSyncModule"     -> "Contract"
      [] cls = "ContractRelationshipSyncModule" -> "ContractRelationship"
      [] OTHER                          -> "?"

sync_object(cls, rec, res, nbs, ctx, settings, fault) ==
    CASE cls = "FabricSyncModule" -> Fabric_sync_object(rec, res, nbs, ctx, settings, fault)
      [] cls = "TenantSyncModule" -> Tenant_sync_object(rec, res, nbs, ctx, settings, fault)
      [] cls = "VRFSyncModule"    -> VRF_sync_object(rec, res, nbs, ctx, settings, fault)
      [] cls = "BridgeDomainSyncModule" ->
             BridgeDomain_sync_object(rec, res, nbs, ctx, settings, fault)
      [] cls = "PodSyncModule" -> Pod_sync_object(rec, res, nbs, ctx, settings, fault)
      [] cls = "NodeSyncModule" -> Node_sync_object(rec, res, nbs, ctx, settings, fault)
      [] cls = "SubnetSyncModule" -> Subnet_sync_object(rec, res, nbs, ctx, settings, fault)
      [] cls = "AppProfileSyncModule" ->
             AppProfile_sync_object(rec, res, nbs, ctx, settings, fault)
      [] cls = "EPGSyncModule" -> EPG_sync_object(rec, res, nbs, ctx, settings, fault)
      [] cls = "ESGSyncModule" -> ESG_sync_object(rec, res, nbs, ctx, settings, fault)
      [] cls = "ContractFilterSyncModule" ->
             ContractFilter_sync_object(rec, res, nbs, ctx, settings, fault)
      [] cls = "ContractSyncModule" ->
             Contract_sync_object(rec, res, nbs, ctx, settings, fault)
      [] cls = "ContractRelationshipSyncModule" ->
             ContractRelationship_in_run(rec, res, nbs, ctx, fault)

\* variant: the result is put in front
add_result_front(results, result) == <<result>> \o results

\* SyncStats.add_result
add_result(results, result) == Append(results, result)

\* variant: the dry-run branch is never taken
dry_run_off(settings) == FALSE

\* the test of the dry-run branch of sync
dry_run(settings) == settings.dry_run

\* variant: break on every failure
loop_break_on_failure(success, settings) == ~success

\* "if not success and not self.settings.continue_on_error: break"
loop_break(success, settings) == ~success /\ ~settings.continue_on_error

\* variant: run_all without its handler
run_all_noexcept(settings) == [break |-> TRUE, escaped |-> TRUE]

\* the "except Exception" of run_all: log, and break unless continue_on_error
run_all_except(settings) ==
    [break |-> ~settings.continue_on_error, escaped |-> FALSE]

\* the outer "except Exception" of sync
sync_except(res) == [res EXCEPT !.errors = Append(@, "module")]

\* the "except Exception" around sync_object in the loop of sync
loop_except(res) == [res EXCEPT !.failed = @ + 1, !.errors = Append(@, "record")]

(***************************************************************************)
(* Source data (what the ACI client getters return) and destinations.      *)
(***************************************************************************)
MaxFaults == 1
MaxRuns == 2

FabricSettings(gipo) ==
    [fabric_id |-> PyInt(1), infra_vlan_id |-> PyInt(3967), gipo_pool |-> gipo,
     name |-> PyStr("ACI Fabric")]

Tenants ==
    <<[name |-> PyStr("t1"), dn |-> PyStr("uni/tn-t1"), name_alias |-> PyNone,
       description |-> PyStr("prod")],
      [name |-> PyStr("t2"), dn |-> PyStr("uni/tn-t2"), name_alias |-> PyNone,
       description |-> PyNone]>>

Vrf(tenant, name) ==
    [name |-> PyStr(name), dn |-> PyStr("uni/tn/ctx"), tenant |-> PyStr(tenant),
     name_alias |-> PyNone, description |-> PyNone,
     bd_enforced_enabled |-> PyBool(FALSE),
     ip_data_plane_learning |-> PyStr("enabled"),
     pc_enf_dir |-> PyStr("ingress"), pc_enf_pref |-> PyStr("enforced"),
     pim_v4_enabled |-> PyBool(FALSE), pim_v6_enabled |-> PyBool(FALSE),
     preferred_group |-> PyBool(FALSE)]

Bd(tenant, name, vrf, vrf_tenant, mac) ==
    [name |-> PyStr(name), dn |-> PyStr("uni/tn/BD"), tenant |-> PyStr(tenant),
     vrf |-> PyStr(vrf), vrf_tenant |-> PyStr(vrf_tenant),
     name_alias |-> PyNone, description |-> PyNone,
     arp_flood |-> PyBool(FALSE), ep_move_detect |-> PyStr("garp"),
     ip_learning |-> PyBool(TRUE), limit_ip_learn |-> PyBool(TRUE),
     mac |-> PyStr(mac), multi_dest_pkt_act |-> PyStr("bd-flood"),
     unicast_route |-> PyBool(TRUE), unk_mac_ucast_act |-> PyStr("proxy"),
     unk_mcast_act |-> PyStr("flood"), v6_unk_mcast_act |-> PyStr("flood"),
     vmac |-> PyStr("not-applicable"), pim_v4_enabled |-> PyBool(FALSE),
     host_route_adv |-> PyBool(FALSE)]

\* the second bridge domain uses a VRF of another tenant
SourceData(gipo) ==
    [FabricSyncModule |-> <<FabricSettings(gipo)>>,
     TenantSyncModule |-> Tenants,
     VRFSyncModule |-> <<Vrf("t1", "v1"), Vrf("t2", "v2")>>,
     BridgeDomainSyncModule |->
        <<Bd("t1", "b1", "v1", "t1", "00:22:BD:F8:19:FF"),
          Bd("t1", "b2", "v2", "t2", "00:22:BD:F8:19:FF"),
          Bd("t2", "b3", "v2", "t2", "00:22:BD:F8:19:FF")>>]

GipoPools == {PyNone, PyStr("225.0.0.0/15")}

\* the module lists run_all is given: the whole order, a selection that
\* leaves the tenants out, a list holding the abstract base class, and a list
\* with the bridge domains ahead of the VRFs
ModuleLists ==
    {<<"FabricSyncModule", "TenantSyncModule", "VRFSyncModule",
       "BridgeDomainSyncModule">>,
     <<"FabricSyncModule", "TenantSyncModule", "BridgeDomainSyncModule",
       "VRFSyncModule">>,
     <<"FabricSyncModule", "VRFSyncModule", "TenantSyncModule">>,
     <<"FabricSyncModule", "BaseSyncModule", "TenantSyncModule">>}

\* destinations a run can start from: empty, or one left by a sync of older
\* source data
Destinations ==
    {<< >>,
     <<[ep |-> "fabrics",
        f |-> [name |-> PyStr("ACI_Fabric"), fabric_id |-> PyInt(1),
               infra_vlan_vid |-> PyInt(3967)]],
       [ep |-> "tenants",
        f |-> [aci_fabric |-> PyObj(1), name |-> PyStr("t1"),
               description |-> PyStr("old")]]>>}

EmptyContext ==
    [fabric_id |-> 0, fabric_name |-> "", tenant_map |-> << >>, vrf_map |-> << >>,
     bd_map |-> << >>, pod_map |-> << >>, node_map |-> << >>, tep_pool_mask |-> "",
     ap_map |-> << >>, epg_map |-> << >>, esg_map |-> << >>, filter_map |-> << >>,
     contract_map |-> << >>, subject_map |-> << >>]

NoCall ==
    [cls |-> "none", idx |-> 0, ret |-> TRUE, raised |-> FALSE, skipped |-> FALSE,
     fault |-> "none", failedCall |-> "none", writes |-> 0,
     failedDelta |-> 0, errorsDelta |-> 0, continued |-> TRUE]

RecordFaults == {"goc1", "update", "refresh"}

\* no helper call
Nothing == [op |-> "none"]

VARIABLES
    settings,     \* SyncSettings: continue_on_error, dry_run, verify_updates
    modules,      \* the list given to run_all
    aci,          \* the source data
    nb,           \* the destination
    context,      \* SyncOrchestrator.context
    stats,        \* SyncStats.results
    pc,           \* where run_all / sync stands
    mi,           \* index of the current module in the list
    result,       \* the current module's SyncResult
    aci_objects,  \* what fetch_from_aci returned
    ri,           \* index of the next record of the loop
    run,          \* number of the run
    faults,       \* failures injected so far
    executed,     \* indices of the modules instantiated, in order
    moduleFailed, \* indices of the modules where a hook raised
    calls,        \* sync_object calls of the current module
    falses,       \* sync_object calls of the current module that returned False
    writes,       \* destination create/update requests of the current run
    last,         \* the last sync_object call
    escaped,      \* an exception left run_all
    veCur, veNew, veRes, vePc,
    uIn,          \* the arguments of a helper called on its own
    uOut,         \* what the helper returned or left behind
    uPc           \* "idle", "call" or "returned"

orchVars ==
    <<settings, modules, aci, nb, context, stats, pc, mi, result, aci_objects, ri,
      run, faults, executed, moduleFailed, calls, falses, writes, last, escaped>>

unitVars == <<uIn, uOut, uPc>>

diffVars == <<veCur, veNew, veRes, vePc, unitVars>>

vars == <<orchVars, diffVars>>

Init ==
    /\ settings \in [continue_on_error : BOOLEAN, dry_run : BOOLEAN,
                     verify_updates : BOOLEAN]
    /\ modules \in ModuleLists
    /\ aci \in {SourceData(g) : g \in GipoPools}
    /\ nb \in Destinations
    /\ context = EmptyContext
    /\ stats = << >>
    /\ pc = "run_all"
    /\ mi = 1
    /\ result = SyncResult("")
    /\ aci_objects = << >>
    /\ ri = 1
    /\ run = 1
    /\ faults = 0
    /\ executed = << >>
    /\ moduleFailed = {}
    /\ calls = 0
    /\ falses = 0
    /\ writes = 0
    /\ last = NoCall
    /\ escaped = FALSE
    /\ veCur = PyNone /\ veNew = PyNone /\ veRes = FALSE /\ vePc = "idle"
    /\ uIn = Nothing /\ uOut = Nothing /\ uPc = "idle"

\* pre_sync, fetch_from_aci and post_sync are methods a module overrides: a
\* call of one either returns or, while the budget lasts, raises
MayFail == IF faults < MaxFaults THEN BOOLEAN ELSE {FALSE}

\* run_module: module_class(...) and the entry into sync
RunModule ==
    /\ pc = "run_all" /\ mi <= Len(modules) /\ ~Abstract(modules[mi])
    /\ result' = SyncResult(object_type(modules[mi]))
    /\ executed' = Append(executed, mi)
    /\ aci_objects' = << >> /\ ri' = 1 /\ calls' = 0 /\ falses' = 0
    /\ pc' = "pre_sync"
    /\ UNCHANGED <<settings, modules, aci, nb, context, stats, mi, run, faults,
                   moduleFailed, writes, last, escaped, diffVars>>

\* run_module raises in the constructor; run_all's handler takes it
RunModuleRaises ==
    /\ pc = "run_all" /\ mi <= Len(modules) /\ Abstract(modules[mi])
    /\ LET h == run_all_except(settings)
       IN /\ escaped' = h.escaped
          /\ pc' = IF h.escaped THEN "escaped" ELSE IF h.break THEN "done" ELSE "run_all"
          /\ mi' = IF h.break THEN mi ELSE mi + 1
    /\ UNCHANGED <<settings, modules, aci, nb, context, stats, result, aci_objects,
                   ri, run, faults, executed, moduleFailed, calls, falses, writes,
                   last, diffVars>>

\* a hook raised: the outer handler of sync records it, post_sync is skipped
HookRaised ==
    /\ result' = sync_except(result)
    /\ moduleFailed' = moduleFailed \cup {mi}
    /\ faults' = faults + 1
    /\ pc' = "sync_return"

PreSync ==
    /\ pc = "pre_sync"
    /\ \E fail \in MayFail :
          IF fail THEN HookRaised
          ELSE /\ pc' = "fetch"
               /\ UNCHANGED <<result, moduleFailed, faults>>
    /\ UNCHANGED <<settings, modules, aci, nb, context, stats, mi, aci_objects, ri,
                   run, executed, calls, falses, writes, last, escaped, diffVars>>

FetchFromAci ==
    /\ pc = "fetch"
    /\ \E fail \in MayFail :
          IF fail THEN HookRaised /\ UNCHANGED aci_objects
          ELSE /\ aci_objects' = aci[modules[mi]]
               /\ pc' = IF dry_run(settings) THEN "dry_run" ELSE "loop"
               /\ UNCHANGED <<result, moduleFailed, faults>>
    /\ UNCHANGED <<settings, modules, aci, nb, context, stats, mi, ri,
                   run, executed, calls, falses, writes, last, escaped, diffVars>>

DryRun ==
    /\ pc = "dry_run"
    /\ result' = [result EXCEPT !.unchanged = Len(aci_objects)]
    /\ pc' = "post_sync"
    /\ UNCHANGED <<settings, modules, aci, nb, context, stats, mi, aci_objects, ri,
                   run, faults, executed, moduleFailed, calls, falses, writes, last,
                   escaped, diffVars>>

\* one turn of the loop of sync, o being what sync_object did
LoopStep(o, fault) ==
    /\ result' = IF o.raised
                 THEN IF settings.continue_on_error
                      THEN loop_except(o.res) ELSE sync_except(loop_except(o.res))
                 ELSE o.res
    /\ nb' = o.nb
    /\ context' = o.ctx
    /\ calls' = calls + 1
    /\ falses' = falses + (IF ~o.raised /\ ~o.ret THEN 1 ELSE 0)
    /\ writes' = writes + o.writes
    /\ faults' = faults + (IF fault = "none" THEN 0 ELSE 1)
    /\ last' = [cls |-> modules[mi], idx |-> ri, ret |-> o.ret,
                raised |-> o.raised, skipped |-> o.skipped, fault |-> fault,
                failedCall |-> o.failedCall, writes |-> o.writes,
                failedDelta |-> o.res.failed - result.failed,
                errorsDelta |-> Len(o.res.errors) - Len(result.errors),
                continued |-> IF o.raised THEN settings.continue_on_error
                              ELSE ~loop_break(o.ret, settings)]
    /\ ri' = ri + 1
    /\ pc' = IF o.raised
             THEN IF settings.continue_on_error THEN "loop" ELSE "sync_return"
             ELSE IF loop_break(o.ret, settings) THEN "post_sync" ELSE "loop"

SyncObject ==
    /\ pc = "loop" /\ ri <= Len(aci_objects)
    /\ \E fault \in {"none"} \cup (IF faults < MaxFaults THEN RecordFaults ELSE {}) :
          LoopStep(sync_object(modules[mi], aci_objects[ri], result, nb, context,
                               settings, fault), fault)
    /\ UNCHANGED <<settings, modules, aci, stats, mi, aci_objects, run, executed,
                   moduleFailed, escaped, diffVars>>

\* the loop ran out of records
LoopEnd ==
    /\ pc = "loop" /\ ri > Len(aci_objects)
    /\ pc' = "post_sync"
    /\ UNCHANGED <<settings, modules, aci, nb, context, stats, mi, result, aci_objects,
                   ri, run, faults, executed, moduleFailed, calls, falses, writes,
                   last, escaped, diffVars>>

PostSync ==
    /\ pc = "post_sync"
    /\ \E fail \in MayFail :
          IF fail THEN HookRaised
          ELSE /\ pc' = "sync_return"
               /\ UNCHANGED <<result, moduleFailed, faults>>
    /\ UNCHANGED <<settings, modules, aci, nb, context, stats, mi, aci_objects, ri,
                   run, executed, calls, falses, writes, last, escaped, diffVars>>

\* sync returns its result, run_module adds it to the stats, run_all goes on
SyncReturn ==
    /\ pc = "sync_return"
    /\ stats' = add_result(stats, result)
    /\ mi' = mi + 1
    /\ pc' = "run_all"
    /\ UNCHANGED <<settings, modules, aci, nb, context, result, aci_objects, ri, run,
                   faults, executed, moduleFailed, calls, falses, writes, last,
                   escaped, diffVars>>

RunAllReturn ==
    /\ pc = "run_all" /\ mi > Len(modules)
    /\ pc' = "done"
    /\ UNCHANGED <<settings, modules, aci, nb, context, stats, mi, result, aci_objects,
                   ri, run, faults, executed, moduleFailed, calls, falses, writes,
                   last, escaped, diffVars>>

\* the program is started again: a new orchestrator, the same source data,
\* the destination as the run before left it
NewRun ==
    /\ pc = "done" /\ run < MaxRuns
    /\ run' = run + 1
    /\ context' = EmptyContext
    /\ stats' = << >>
    /\ mi' = 1
    /\ executed' = << >>
    /\ moduleFailed' = {}
    /\ writes' = 0
    /\ last' = NoCall
    /\ pc' = "run_all"
    /\ UNCHANGED <<settings, modules, aci, nb, result, aci_objects, ri, faults, calls,
                   falses, escaped, diffVars>>

Next ==
    \/ RunModule
    \/ RunModuleRaises
    \/ PreSync
    \/ FetchFromAci
    \/ DryRun
    \/ SyncObject
    \/ LoopEnd
    \/ PostSync
    \/ SyncReturn
    \/ RunAllReturn
    \/ NewRun

Spec == Init /\ [][Next]_vars

(***************************************************************************)
(* values_equal applied to every pair of sample values.                    *)
(***************************************************************************)
InitDiff ==
    /\ settings = [continue_on_error |-> TRUE, dry_run |-> FALSE,
                   verify_updates |-> TRUE]
    /\ modules = << >>
    /\ aci = SourceData(PyNone)
    /\ nb = << >>
    /\ context = EmptyContext
    /\ stats = << >>
    /\ pc = "idle"
    /\ mi = 1
    /\ result = SyncResult("")
    /\ aci_objects = << >>
    /\ ri = 1
    /\ run = 1
    /\ faults = 0
    /\ executed = << >>
    /\ moduleFailed = {}
    /\ calls = 0
    /\ falses = 0
    /\ writes = 0
    /\ last = NoCall
    /\ escaped = FALSE
    /\ veCur \in PyValues
    /\ veNew \in PyValues
    /\ veRes = FALSE
    /\ vePc = "call"
    /\ uIn = Nothing /\ uOut = Nothing /\ uPc = "idle"

CallValuesEqual ==
    /\ vePc = "call"
    /\ veRes' = values_equal(veCur, veNew)
    /\ vePc' = "returned"
    /\ UNCHANGED <<veCur, veNew, orchVars, unitVars>>

NextDiff == CallValuesEqual

SpecDiff == InitDiff /\ [][NextDiff]_vars

(***************************************************************************)
(* Helpers called on their own, on every combination of sample arguments.  *)
(***************************************************************************)
\* every dict with keys among K and values in V
Dicts(K, V) == UNION {[S -> V] : S \in SUBSET K}

InitIdle ==
    /\ settings = [continue_on_error |-> TRUE, dry_run |-> FALSE,
                   verify_updates |-> TRUE]
    /\ modules = << >>
    /\ aci = SourceData(PyNone)
    /\ nb = << >>
    /\ context = EmptyContext
    /\ stats = << >>
    /\ pc = "idle"
    /\ mi = 1
    /\ result = SyncResult("")
    /\ aci_objects = << >>
    /\ ri = 1
    /\ run = 1
    /\ faults = 0
    /\ executed = << >>
    /\ moduleFailed = {}
    /\ calls = 0
    /\ falses = 0
    /\ writes = 0
    /\ last = NoCall
    /\ escaped = FALSE
    /\ veCur = PyNone /\ veNew = PyNone /\ veRes = FALSE /\ vePc = "idle"

idleVars == <<orchVars, veCur, veNew, veRes, vePc>>

FieldMaps ==
    { <<<<"a", "x">>, <<"b", "y">>>>,
      <<<<"a", "x">>, <<"b", "x">>>>,
      <<<<"a", "x">>, <<"c", "y">>>> }

ConverterSets == {EmptyDict, "a" :> "bool", "b" :> "or_none"}

BuildCalls ==
    [op : {"_build_updates"},
     existing_obj : Dicts({"x", "y"}, {PyNone, PyStr("a"), PyBool(TRUE), PyObj(1)}),
     aci_data : Dicts({"a", "b"}, {PyNone, PyStr(""), PyStr("a"), PyBool(TRUE), PyInt(1)}),
     field_map : FieldMaps,
     converters : ConverterSets,
     extra_updates : {EmptyDict, "x" :> PyInt(1)}]

InitBuild == InitIdle /\ uIn \in BuildCalls /\ uOut = Nothing /\ uPc = "call"

CallBuildUpdates ==
    /\ uPc = "call" /\ uIn.op = "_build_updates"
    /\ uOut' = [op |-> uIn.op, updates |-> build_updates(uIn.existing_obj, uIn.aci_data, uIn.field_map, uIn.converters, uIn.extra_updates)]
    /\ uPc' = "returned"
    /\ UNCHANGED <<uIn, idleVars>>

NextBuild == CallBuildUpdates

SpecBuild == InitBuild /\ [][NextBuild]_vars

\* a destination holding one tenant
OneTenant ==
    <<[ep |-> "tenants",
       f |-> [aci_fabric |-> PyObj(1), name |-> PyStr("t1"), description |-> PyStr("old")]]>>

ApplyCalls ==
    [op : {"_apply_updates"},
     res : {[SyncResult("Tenant") EXCEPT !.created = c, !.failed = f] : c \in 0..1, f \in 0..1},
     updates : Dicts({"description", "comments"}, {PyNone, PyStr("old"), PyStr("a")}),
     verify : BOOLEAN,
     fault : {"none", "update", "refresh"}]

InitApply == InitIdle /\ uIn \in ApplyCalls /\ uOut = Nothing /\ uPc = "call"

CallApplyUpdates ==
    /\ uPc = "call" /\ uIn.op = "_apply_updates"
    /\ uOut' = apply_updates(uIn.res, OneTenant, 1, uIn.updates, uIn.verify, uIn.fault)
    /\ uPc' = "returned"
    /\ UNCHANGED <<uIn, idleVars>>

NextApply == CallApplyUpdates

SpecApply == InitApply /\ [][NextApply]_vars

\* the MAC values a source record can carry
MacSamples ==
    {PyNone} \cup {PyStr(m) : m \in {"", "not-applicable", "Not-Applicable", "N/A", "n/a", "none", "None", "001122334455", "00:11:22:33:44:ab", "00-11-22-33-44-ab", "00:22:BD:F8:19:FF"}}

\* a destination and a context in which tenant t1 and VRF t1/v1 are synced
Synced ==
    [nb |-> <<[ep |-> "fabrics", f |-> [name |-> PyStr("ACI_Fabric"), fabric_id |-> PyInt(1)]],
              [ep |-> "tenants", f |-> [aci_fabric |-> PyObj(1), name |-> PyStr("t1")]],
              [ep |-> "vrfs", f |-> [aci_tenant |-> PyObj(2), name |-> PyStr("v1")]]>>,
     ctx |-> [EmptyContext EXCEPT !.fabric_id = 1, !.fabric_name = "ACI_Fabric",
                                  !.tenant_map = "t1" :> 2,
                                  !.vrf_map = <<"t1", "v1">> :> 3]]

BdWithMacs(mac, vmac) ==
    [Bd("t1", "b1", "v1", "t1", "") EXCEPT !.mac = mac, !.vmac = vmac]

\* the destination without the bridge domain, and as earlier syncs of b1 left it
MacDestinations ==
    {Synced.nb} \cup
    {BridgeDomain_sync_object(BdWithMacs(m, PyNone), SyncResult("BridgeDomain"), Synced.nb, Synced.ctx, [verify_updates |-> FALSE], "none").nb :
        m \in {PyNone, PyStr("00:11:22:33:44:ab"), PyStr("00:22:BD:F8:19:FF")}}

MacCalls ==
    [op : {"BridgeDomain.sync_object"},
     rec : {BdWithMacs(m, v) : m \in MacSamples, v \in MacSamples},
     nbs : MacDestinations]

\* what a sync_object call passed to get_or_create_bridge_domain and to
\* update_bridge_domain, and its outcome
MacOutcome(c, found) ==
    [op |-> c.op,
     existed |-> found /= {},
     bd_params |-> bd_params(c.rec),
     updates |-> IF found = {} THEN EmptyDict
                 ELSE BDUpdates(c.rec, c.nbs[CHOOSE i \in found : TRUE].f, BDUpdateAttributes(c.rec)),
     current |-> IF found = {} THEN EmptyDict ELSE c.nbs[CHOOSE i \in found : TRUE].f,
     o |-> BridgeDomain_sync_object(c.rec, SyncResult("BridgeDomain"), c.nbs, Synced.ctx, [verify_updates |-> TRUE], "none")]

InitMac == InitIdle /\ uIn \in MacCalls /\ uOut = Nothing /\ uPc = "call"

CallBridgeDomainSync ==
    /\ uPc = "call" /\ uIn.op = "BridgeDomain.sync_object"
    /\ uOut' = MacOutcome(uIn, Find(uIn.nbs, "bridge_domains", ("aci_tenant_id" :> PyInt(2)) @@ ("name" :> uIn.rec.name)))
    /\ uPc' = "returned"
    /\ UNCHANGED <<uIn, idleVars>>

NextMac == CallBridgeDomainSync

SpecMac == InitMac /\ [][NextMac]_vars

(***************************************************************************)
(* Contract relations: a create function called twice with the same        *)
(* arguments.                                                              *)
(***************************************************************************)
Link(type, object_id, contract_id, role) ==
    [aci_contract |-> contract_id, aci_object_type |-> type, aci_object_id |-> object_id,
     role |-> role, aci_tenant |-> 1, aci_fabric |-> 0]

\* the links a destination can hold beforehand
LinkStores ==
    {<< >>,
     <<Link("netbox_aci_plugin.acivrf", 1, 1, "prov")>>,
     <<Link("netbox_aci_plugin.aciendpointgroup", 1, 1, "prov")>>,
     <<Link("netbox_aci_plugin.aciendpointgroup", 2, 1, "cons")>>}

RelOps == {"create_contract_relation", "create_vrf_contract_relation"}

RelCalls ==
    [op : RelOps, object_id : 1..MaxObjId, contract_id : {1}, role : {"prov", "cons"},
     links : LinkStores, prefetched : BOOLEAN]

\* the client and the destination before the first call or record
RelStart(c) ==
    [links |-> c.links,
     cache |-> IF c.prefetched THEN [fetched |-> TRUE, rels |-> c.links] ELSE NoCache,
     rets |-> << >>, posts |-> << >>, faults |-> << >>]

\* the state after a call that gave r
RelCalled(st, r, fault) ==
    [links |-> r.links, cache |-> r.cache, rets |-> Append(st.rets, r.ret),
     posts |-> Append(st.posts, r.posts), faults |-> Append(st.faults, fault)]

RelCall(c, st, fault) ==
    IF c.op = "create_contract_relation"
    THEN create_contract_relation(st.links, st.cache, c.contract_id, c.object_id, c.role, 1, 0, fault)
    ELSE create_vrf_contract_relation(st.links, st.cache, c.object_id, c.contract_id, c.role, 1, fault)

InitRel == InitIdle /\ uIn \in RelCalls /\ uOut = RelStart(uIn) /\ uPc = "call"

CallCreateRelation ==
    /\ uPc = "call" /\ uIn.op \in RelOps
    /\ \E fault \in RelFaults : uOut' = RelCalled(uOut, RelCall(uIn, uOut, fault), fault)
    /\ uPc' = IF Len(uOut.rets) = 1 THEN "returned" ELSE "call"
    /\ UNCHANGED <<uIn, idleVars>>

NextRel == CallCreateRelation

SpecRel == InitRel /\ [][NextRel]_vars

\* the relationship records of the source
Rel(tenant, contract, ap, epg, vrf, is_vzany) ==
    [contract |-> contract, tenant |-> tenant, ap |-> ap, epg |-> epg, vrf |-> vrf,
     is_vzany |-> is_vzany, role |-> ""]

\* an EPG and a vzAny provider, a provider of an unknown contract; a consumer
\* of a contract of the common tenant, a vzAny consumer of an unknown VRF
Relationships ==
    [providers |-> <<Rel("t1", "c1", "a1", "e1", "", FALSE), Rel("t1", "c1", "", "", "v1", TRUE),
                     Rel("t1", "c9", "a1", "e1", "", FALSE)>>,
     consumers |-> <<Rel("t1", "c2", "a1", "e1", "", FALSE), Rel("t1", "c1", "", "", "v9", TRUE)>>]

\* the context the earlier modules of a run leave
RelContext ==
    [tenant_map |-> ("t1" :> 1) @@ ("common" :> 2),
     contract_map |-> (<<"t1", "c1">> :> 1) @@ (<<"common", "c2">> :> 2),
     vrf_map |-> <<"t1", "v1">> :> 1,
     epg_map |-> <<"t1", "a1", "e1">> :> 1]

RelRuns ==
    [op : {"ContractRelationship.sync"}, continue_on_error : BOOLEAN, links : LinkStores,
     prefetched : BOOLEAN]

RunStart(c) ==
    [links |-> c.links,
     cache |-> IF c.prefetched THEN [fetched |-> TRUE, rels |-> c.links] ELSE NoCache,
     res |-> SyncResult("ContractRelationship"), aci_objects |-> << >>, ri |-> 1,
     last |-> [fault |-> "none", ret |-> TRUE, attempted |-> FALSE, created |-> FALSE,
               unchangedDelta |-> 0, continued |-> TRUE]]

\* the state after sync_object gave o for the record at ri
RelStepped(st, o, fault, continued) ==
    [links |-> o.links, cache |-> o.cache, res |-> o.res, aci_objects |-> st.aci_objects,
     ri |-> st.ri + 1,
     last |-> [fault |-> fault, ret |-> o.ret, attempted |-> o.attempted,
               created |-> o.res.created > st.res.created,
               unchangedDelta |-> o.res.unchanged - st.res.unchanged,
               continued |-> continued]]

InitRelSync == InitIdle /\ uIn \in RelRuns /\ uOut = RunStart(uIn) /\ uPc = "fetch"

FetchRelationships ==
    /\ uPc = "fetch"
    /\ uOut' = [uOut EXCEPT !.aci_objects = ContractRelationship_fetch(Relationships)]
    /\ uPc' = "loop"
    /\ UNCHANGED <<uIn, idleVars>>

RelLoopStep(o, fault) ==
    /\ uOut' = RelStepped(uOut, o, fault, ~loop_break(o.ret, uIn))
    /\ uPc' = IF loop_break(o.ret, uIn) THEN "returned" ELSE "loop"

SyncRelationship ==
    /\ uPc = "loop" /\ uOut.ri <= Len(uOut.aci_objects)
    /\ \E fault \in RelFaults :
          RelLoopStep(ContractRelationship_sync_object(uOut.aci_objects[uOut.ri], uOut.res, uOut.links, uOut.cache, RelContext, fault), fault)
    /\ UNCHANGED <<uIn, idleVars>>

RelLoopEnd ==
    /\ uPc = "loop" /\ uOut.ri > Len(uOut.aci_objects)
    /\ uPc' = "returned"
    /\ UNCHANGED <<uIn, uOut, idleVars>>

NextRelSync == FetchRelationships \/ SyncRelationship \/ RelLoopEnd

SpecRelSync == InitRelSync /\ [][NextRelSync]_vars

(***************************************************************************)
(* The command-line program: importing main.py, then main().               *)
(***************************************************************************)
\* the names sync_modules/__init__.py binds
Exported ==
    {"BaseSyncModule", "SyncResult", "SyncStats", "SyncOrchestrator", "FabricSyncModule",
     "PodSyncModule", "NodeSyncModule", "TenantSyncModule", "VRFSyncModule",
     "BridgeDomainSyncModule", "SubnetSyncModule", "AppProfileSyncModule", "EPGSyncModule",
     "ESGSyncModule", "ContractFilterSyncModule", "ContractSyncModule",
     "ContractRelationshipSyncModule", "SYNC_MODULE_ORDER"}

\* the names main.py imports from .sync_modules
Imported ==
    {"SyncOrchestrator", "SYNC_MODULE_ORDER", "FabricSyncModule", "PodSyncModule",
     "NodeSyncModule", "TenantSyncModule", "VRFSyncModule", "BridgeDomainSyncModule",
     "SubnetSyncModule", "AppProfileSyncModule", "EPGSyncModule", "ESGSyncModule",
     "ContractFilterSyncModule", "ContractSyncModule", "SoftwareVersionSyncModule"}

\* SyncStats.total_failed over the failed counts of the results
RECURSIVE total_failed(_)
total_failed(results) ==
    IF results = << >> THEN 0 ELSE Head(results) + total_failed(Tail(results))

\* main(): the value it returns
main(env) ==
    IF ~env.config_valid THEN 1
    ELSE IF ~env.aci_connect THEN 1
    ELSE IF ~env.netbox_connect THEN 1
    ELSE IF env.interrupt THEN 130
    ELSE IF env.raises THEN 1
    ELSE IF total_failed(env.failed) = 0 THEN 0 ELSE 1

\* "from aci_netbox_sync.main import main; sys.exit(main())": a name that
\* sync_modules does not bind is an ImportError, which ends the interpreter
\* with status 1 before main is called
run_sync(env) ==
    IF Imported \subseteq Exported
    THEN [op |-> env.op, imported |-> TRUE, exit |-> main(env)]
    ELSE [op |-> env.op, imported |-> FALSE, exit |-> 1]

\* what a run meets: the configuration, the two connections, an interrupt
\* or another exception during the sync, the failed counts of two modules
Environments ==
    [op : {"run_sync"}, config_valid : BOOLEAN, aci_connect : BOOLEAN, netbox_connect : BOOLEAN,
     interrupt : BOOLEAN, raises : BOOLEAN, failed : {<<a, b>> : a \in 0..1, b \in 0..1}]

InitMain == InitIdle /\ uIn \in Environments /\ uOut = Nothing /\ uPc = "call"

RunSync ==
    /\ uPc = "call" /\ uIn.op = "run_sync"
    /\ uOut' = run_sync(uIn)
    /\ uPc' = "returned"
    /\ UNCHANGED <<uIn, idleVars>>

NextMain == RunSync

SpecMain == InitMain /\ [][NextMain]_vars

(***************************************************************************)
(* A first run on an empty destination: one fabric, tenant, VRF and bridge *)
(* domain.                                                                 *)
(***************************************************************************)
Scenario ==
    [FabricSyncModule |-> <<[FabricSettings(PyNone) EXCEPT !.name = PyStr("Fabric1")]>>,
     TenantSyncModule |->
        <<[name |-> PyStr("Tenant1"), dn |-> PyStr("uni/tn-Tenant1"), name_alias |-> PyNone,
           description |-> PyNone]>>,
     VRFSyncModule |-> <<Vrf("Tenant1", "VRF1")>>,
     BridgeDomainSyncModule |->
        <<Bd("Tenant1", "BD1", "VRF1", "Tenant1", "00:22:BD:F8:19:FF")>>]

InitScenario ==
    /\ settings \in [continue_on_error : BOOLEAN, dry_run : BOOLEAN,
                     verify_updates : BOOLEAN]
    /\ modules \in ModuleLists
    /\ aci = Scenario
    /\ nb = << >>
    /\ context = EmptyContext
    /\ stats = << >>
    /\ pc = "run_all"
    /\ mi = 1
    /\ result = SyncResult("")
    /\ aci_objects = << >>
    /\ ri = 1
    /\ run = 1
    /\ faults = 0
    /\ executed = << >>
    /\ moduleFailed = {}
    /\ calls = 0
    /\ falses = 0
    /\ writes = 0
    /\ last = NoCall
    /\ escaped = FALSE
    /\ veCur = PyNone /\ veNew = PyNone /\ veRes = FALSE /\ vePc = "idle"
    /\ uIn = Nothing /\ uOut = Nothing /\ uPc = "idle"

SpecScenario == InitScenario /\ [][Next]_vars

(***************************************************************************)
(* The scenario run again after the VRF's ip_data_plane_learning was set   *)
(* to "disabled" in the source.                                            *)
(***************************************************************************)
ScenarioChanged ==
    [Scenario EXCEPT !.VRFSyncModule =
        <<[Vrf("Tenant1", "VRF1") EXCEPT !.ip_data_plane_learning = PyStr("disabled")]>>]

\* between the first run and the second the source changes
SourceChanges ==
    /\ pc = "done" /\ run = 1 /\ aci = Scenario
    /\ aci' = ScenarioChanged
    /\ UNCHANGED <<settings, modules, nb, context, stats, pc, mi, result, aci_objects, ri,
                   run, faults, executed, moduleFailed, calls, falses, writes, last,
                   escaped, diffVars>>

NextRerun == Next \/ SourceChanges

SpecRerun == InitScenario /\ [][NextRerun]_vars

(***************************************************************************)
(* main.get_modules_to_sync: the module list for an --only / --skip        *)
(* selection.  An option that was not given is the empty sequence.         *)
(***************************************************************************)
OBJECT_TYPE_CHOICES ==
    {"fabric", "pods", "nodes", "tenants", "vrfs", "bds", "subnets", "aps", "epgs",
     "esgs", "contracts", "software"}

module_map(name) ==
    CASE name = "fabric"    -> "FabricSyncModule"
      [] name = "pods"      -> "PodSyncModule"
      [] name = "nodes"     -> "NodeSyncModule"
      [] name = "tenants"   -> "TenantSyncModule"
      [] name = "vrfs"      -> "VRFSyncModule"
      [] name = "bds"       -> "BridgeDomainSyncModule"
      [] name = "subnets"   -> "SubnetSyncModule"
      [] name = "aps"       -> "AppProfileSyncModule"
      [] name = "epgs"      -> "EPGSyncModule"
      [] name = "esgs"      -> "ESGSyncModule"
      [] name = "contracts" -> "ContractSyncModule"
      [] name = "software"  -> "SoftwareVersionSyncModule"

\* list.insert(-1, x): before the last element
InsertBeforeLast(l, x) ==
    IF l = << >> THEN <<x>>
    ELSE SubSeq(l, 1, Len(l) - 1) \o <<x>> \o <<l[Len(l)]>>

\* the index of the first occurrence of x in l, 0 when there is none
RECURSIVE IndexFrom(_, _, _)
IndexFrom(l, x, i) ==
    IF i > Len(l) THEN 0 ELSE IF l[i] = x THEN i ELSE IndexFrom(l, x, i + 1)

\* "if x in l: l.remove(x)": the first occurrence goes
Remove(l, x) ==
    IF IndexFrom(l, x, 1) = 0 THEN l
    ELSE SubSeq(l, 1, IndexFrom(l, x, 1) - 1) \o SubSeq(l, IndexFrom(l, x, 1) + 1, Len(l))

\* one step of the --only loop: the module is appended, in the order of
\* the command line, the filter module before a contract module
only_step(l, name) ==
    IF name = "contracts"
    THEN InsertBeforeLast(Append(l, module_map(name)), "ContractFilterSyncModule")
    ELSE Append(l, module_map(name))

RECURSIVE only_loop(_, _, _)
only_loop(only, i, l) ==
    IF i > Len(only) THEN l ELSE only_loop(only, i + 1, only_step(l, only[i]))

skip_step(l, name) ==
    IF name = "contracts"
    THEN Remove(Remove(l, module_map(name)), "ContractFilterSyncModule")
    ELSE Remove(l, module_map(name))

RECURSIVE skip_loop(_, _, _)
skip_loop(skip, i, l) ==
    IF i > Len(skip) THEN l ELSE skip_loop(skip, i + 1, skip_step(l, skip[i]))

get_modules_to_sync(args) ==
    IF args.only # << >> THEN only_loop(args.only, 1, << >>)
    ELSE skip_loop(args.skip, 1, SYNC_MODULE_ORDER)

MaxTypes == 2

\* the command lines with at most MaxTypes object types after --only and --skip together
SelectCalls ==
    UNION {[op : {"get_modules_to_sync"}, only : [1..p[1] -> OBJECT_TYPE_CHOICES], skip : [1..p[2] -> OBJECT_TYPE_CHOICES]] : p \in {q \in (0..MaxTypes) \X (0..MaxTypes) : q[1] + q[2] <= MaxTypes}}

InitSelect == InitIdle /\ uIn \in SelectCalls /\ uOut = Nothing /\ uPc = "call"

CallGetModulesToSync ==
    /\ uPc = "call" /\ uIn.op = "get_modules_to_sync"
    /\ uOut' = [op |-> uIn.op, modules |-> get_modules_to_sync(uIn)]
    /\ uPc' = "returned"
    /\ UNCHANGED <<uIn, idleVars>>

NextSelect == CallGetModulesToSync

SpecSelect == InitSelect /\ [][NextSelect]_vars

(***************************************************************************)
(* Source data for all the modules, and runs that leave the Fabric module  *)
(* out: the Context never holds a fabric_id.                               *)
(***************************************************************************)
Pod(id, tep_pool) ==
    [pod_id |-> PyInt(id), name |-> PyStr("pod-" \o ToString(id)), dn |-> PyStr("topology/pod"),
     tep_pool |-> tep_pool]

Node(id, name, pod, role, address) ==
    [node_id |-> PyInt(id), name |-> PyStr(name), serial |-> PyNone, model |-> PyNone,
     role |-> PyStr(role), pod_id |-> PyInt(pod), fabric_st |-> PyStr("active"),
     address |-> PyStr(address), version |-> PyNone, dn |-> PyStr("topology/pod/node")]

Subnet(tenant, bd, ip) ==
    [ip |-> PyStr(ip), dn |-> PyStr("uni/tn/BD/subnet"), tenant |-> PyStr(tenant),
     bridge_domain |-> PyStr(bd), name |-> PyNone, name_alias |-> PyNone,
     description |-> PyNone, preferred |-> PyBool(FALSE), scope |-> PyStr("public,shared"),
     virtual |-> PyBool(FALSE), ctrl |-> PyStr("nd")]

Ap(tenant, name) ==
    [name |-> PyStr(name), dn |-> PyStr("uni/tn/ap"), tenant |-> PyStr(tenant),
     name_alias |-> PyNone, description |-> PyNone]

Epg(tenant, ap, name, bd, attr) ==
    [name |-> PyStr(name), dn |-> PyStr("uni/tn/ap/epg"), tenant |-> PyStr(tenant),
     app_profile |-> PyStr(ap), bridge_domain |-> bd, name_alias |-> PyNone,
     description |-> PyNone, pref_gr_memb |-> PyStr("exclude"), prio |-> PyStr("unspecified"),
     pc_enf_pref |-> PyStr("unenforced"), flood_on_encap |-> PyBool(FALSE),
     is_attr_based_epg |-> PyBool(attr), shutdown |-> PyBool(FALSE)]

Esg(tenant, ap, name, vrf) ==
    [name |-> PyStr(name), dn |-> PyStr("uni/tn/ap/esg"), tenant |-> PyStr(tenant),
     app_profile |-> PyStr(ap), vrf |-> PyStr(vrf), name_alias |-> PyNone,
     description |-> PyNone, pref_gr_memb |-> PyStr("exclude"), prio |-> PyStr("unspecified"),
     shutdown |-> PyBool(FALSE)]

Filter(tenant, name) ==
    [name |-> PyStr(name), dn |-> PyStr("uni/tn/flt"), tenant |-> PyStr(tenant),
     name_alias |-> PyNone, description |-> PyNone,
     entries |-> <<[name |-> PyStr("http"), etherT |-> PyStr("ip"), prot |-> PyStr("tcp"),
                    dFromPort |-> PyStr("80"), dToPort |-> PyStr("80"),
                    sFromPort |-> PyStr("unspecified"), sToPort |-> PyStr("unspecified")]>>]

Contract(tenant, name) ==
    [name |-> PyStr(name), dn |-> PyStr("uni/tn/brc"), tenant |-> PyStr(tenant),
     name_alias |-> PyNone, description |-> PyNone, scope |-> PyStr("context"),
     prio |-> PyStr("unspecified"), target_dscp |-> PyStr("unspecified"),
     subjects |-> <<[name |-> PyStr("s1"), description |-> PyNone]>>]

\* what the source returns to each module
AllData ==
    [FabricSyncModule |-> <<FabricSettings(PyNone)>>,
     PodSyncModule |-> <<Pod(1, PyStr("10.0.0.0/16"))>>,
     NodeSyncModule |-> <<Node(101, "leaf101", 1, "leaf", "10.0.0.1")>>,
     TenantSyncModule |-> Tenants,
     VRFSyncModule |-> <<Vrf("t1", "v1")>>,
     BridgeDomainSyncModule |-> <<Bd("t1", "b1", "v1", "t1", "00:22:BD:F8:19:FF")>>,
     SubnetSyncModule |-> <<Subnet("t1", "b1", "10.0.0.2/24")>>,
     AppProfileSyncModule |-> <<Ap("t1", "a1")>>,
     EPGSyncModule |-> <<Epg("t1", "a1", "e1", PyStr("b1"), FALSE), Epg("t1", "a1", "u1", PyStr("b1"), TRUE)>>,
     ESGSyncModule |-> <<Esg("t1", "a1", "g1", "v1")>>,
     ContractFilterSyncModule |-> <<Filter("t1", "f1")>>,
     ContractSyncModule |-> <<Contract("t1", "c1")>>,
     ContractRelationshipSyncModule |->
        ContractRelationship_fetch([providers |-> <<Rel("t1", "c1", "a1", "e1", "", FALSE)>>,
                                    consumers |-> <<Rel("t1", "c1", "", "", "v1", TRUE)>>])]

\* SYNC_MODULE_ORDER from Pod on, the same in another order, and a list
\* with the abstract base class
NoFabricLists ==
    {Tail(SYNC_MODULE_ORDER),
     <<"ContractRelationshipSyncModule", "ContractSyncModule", "EPGSyncModule", "AppProfileSyncModule", "SubnetSyncModule", "BridgeDomainSyncModule", "VRFSyncModule", "TenantSyncModule", "NodeSyncModule", "PodSyncModule">>,
     <<"PodSyncModule", "BaseSyncModule", "TenantSyncModule">>}

InitNoFabric ==
    /\ settings \in [continue_on_error : BOOLEAN, dry_run : BOOLEAN, verify_updates : BOOLEAN]
    /\ modules \in NoFabricLists
    /\ aci = AllData
    /\ nb = << >>
    /\ context = EmptyContext
    /\ stats = << >> /\ pc = "run_all" /\ mi = 1 /\ result = SyncResult("")
    /\ aci_objects = << >> /\ ri = 1 /\ run = 1 /\ faults = 0 /\ executed = << >>
    /\ moduleFailed = {} /\ calls = 0 /\ falses = 0 /\ writes = 0 /\ last = NoCall
    /\ escaped = FALSE
    /\ veCur = PyNone /\ veNew = PyNone /\ veRes = FALSE /\ vePc = "idle"
    /\ uIn = Nothing /\ uOut = Nothing /\ uPc = "idle"

SpecNoFabric == InitNoFabric /\ [][Next]_vars

(***************************************************************************)
(* Runs over all thirteen modules with contracts of the common tenant.     *)
(***************************************************************************)
Tenant(name) ==
    [name |-> PyStr(name), dn |-> PyStr("uni/tn"), name_alias |-> PyNone,
     description |-> PyNone]

\* contract c1 exists in t1 and in common, c2 in common alone, c9 nowhere;
\* the source has the common tenant or not
ContractData(tenants) ==
    [AllData EXCEPT
        !.TenantSyncModule = tenants,
        !.ContractSyncModule = <<Contract("common", "c1"), Contract("t1", "c1"), Contract("common", "c2")>>,
        !.ContractRelationshipSyncModule =
            ContractRelationship_fetch(
                [providers |-> <<Rel("t1", "c1", "a1", "e1", "", FALSE), Rel("t1", "c2", "", "", "v1", TRUE)>>,
                 consumers |-> <<Rel("t1", "c2", "a1", "e1", "", FALSE), Rel("t1", "c9", "", "", "v1", TRUE)>>])]

ContractLists ==
    {SYNC_MODULE_ORDER,
     <<"FabricSyncModule", "TenantSyncModule", "VRFSyncModule", "ContractSyncModule", "ContractRelationshipSyncModule">>,
     <<"FabricSyncModule", "BaseSyncModule", "TenantSyncModule">>}

InitContracts ==
    /\ settings \in [continue_on_error : BOOLEAN, dry_run : BOOLEAN, verify_updates : BOOLEAN]
    /\ modules \in ContractLists
    /\ aci \in {ContractData(<<Tenant("t1"), Tenant("common")>>), ContractData(<<Tenant("t1"), Tenant("t2")>>)}
    /\ nb = << >>
    /\ context = EmptyContext
    /\ stats = << >> /\ pc = "run_all" /\ mi = 1 /\ result = SyncResult("")
    /\ aci_objects = << >> /\ ri = 1 /\ run = 1 /\ faults = 0 /\ executed = << >>
    /\ moduleFailed = {} /\ calls = 0 /\ falses = 0 /\ writes = 0 /\ last = NoCall
    /\ escaped = FALSE
    /\ veCur = PyNone /\ veNew = PyNone /\ veRes = FALSE /\ vePc = "idle"
    /\ uIn = Nothing /\ uOut = Nothing /\ uPc = "idle"

SpecContracts == InitContracts /\ [][Next]_vars

(***************************************************************************)
(* EPGSyncModule.sync_object on one record.                                *)
(***************************************************************************)
\* a destination and a context in which tenant t1, its bridge domains b1 and
\* b2 and its application profile a1 are synced
EpgSynced ==
    [nb |-> Synced.nb \o
            <<[ep |-> "bridge_domains", f |-> [aci_tenant |-> PyObj(2), aci_vrf |-> PyObj(3), name |-> PyStr("b1")]],
              [ep |-> "bridge_domains", f |-> [aci_tenant |-> PyObj(2), aci_vrf |-> PyObj(3), name |-> PyStr("b2")]],
              [ep |-> "app_profiles", f |-> [aci_tenant |-> PyObj(2), name |-> PyStr("a1")]]>>,
     ctx |-> [Synced.ctx EXCEPT !.bd_map = (<<"t1", "b1">> :> 4) @@ (<<"t1", "b2">> :> 5),
                                !.ap_map = <<"t1", "a1">> :> 6]]

EpgRecords ==
    {[Epg("t1", ap, name, bd, attr) EXCEPT !.pref_gr_memb = PyStr(pref)] :
        ap \in {"a1", "a9"}, name \in {"e1", ""}, bd \in {PyStr("b1"), PyStr("b2"), PyStr("b9"), PyNone},
        attr \in BOOLEAN, pref \in {"exclude", "include"}}

\* the destination without the EPG, and as an earlier sync of e1 left it when
\* e1 was in bridge domain b1 or b2
EpgDestinations ==
    {EpgSynced.nb} \cup
    {EPG_sync_object(Epg("t1", "a1", "e1", PyStr(b), FALSE), SyncResult("EndpointGroup"), EpgSynced.nb, EpgSynced.ctx, [verify_updates |-> FALSE], "none").nb :
        b \in {"b1", "b2"}}

EpgCalls ==
    [op : {"EPG.sync_object"}, rec : EpgRecords, nbs : EpgDestinations,
     res : {SyncResult("EndpointGroup"), [SyncResult("EndpointGroup") EXCEPT !.created = 1, !.failed = 1]},
     verify : BOOLEAN, fault : {"none"} \cup RecordFaults]

\* a sync_object call: the EPG it found, the update set it built for it and
\* its outcome
EpgOutcome(c, found) ==
    [op |-> c.op,
     existed |-> found /= {},
     current |-> IF found = {} THEN EmptyDict ELSE c.nbs[CHOOSE i \in found : TRUE].f,
     updates |-> IF found = {} THEN EmptyDict ELSE EPGUpdates(c.nbs[CHOOSE i \in found : TRUE].f, c.rec),
     bd_id |-> EPGBdId(c.rec, EpgSynced.ctx),
     ap_id |-> MapGet(EpgSynced.ctx.ap_map, Key(c.rec.tenant, c.rec.app_profile)),
     o |-> EPG_sync_object(c.rec, c.res, c.nbs, EpgSynced.ctx, [verify_updates |-> c.verify], c.fault)]

InitEpg == InitIdle /\ uIn \in EpgCalls /\ uOut = Nothing /\ uPc = "call"

CallEPGSync ==
    /\ uPc = "call" /\ uIn.op = "EPG.sync_object"
    /\ uOut' = EpgOutcome(uIn, Find(uIn.nbs, "endpoint_groups", ("aci_app_profile_id" :> PyInt(MapGet(EpgSynced.ctx.ap_map, Key(uIn.rec.tenant, uIn.rec.app_profile)))) @@ ("name" :> uIn.rec.name)))
    /\ uPc' = "returned"
    /\ UNCHANGED <<uIn, idleVars>>

NextEpg == CallEPGSync

SpecEpg == InitEpg /\ [][NextEpg]_vars

(***************************************************************************)
(* Runs of Fabric, Pod and Node over fabrics of one or two pods.           *)
(***************************************************************************)
\* a node in each pod and a node without a usable TEP address
TepData(pods) ==
    [AllData EXCEPT
        !.PodSyncModule = pods,
        !.NodeSyncModule = <<Node(101, "leaf101", 1, "leaf", "10.0.0.1"),
                             Node(201, "leaf201", 2, "leaf", "10.0.0.2"),
                             Node(102, "spine102", 1, "spine", "0.0.0.0")>>]

\* one pod, or two pods with every combination of pool mask lengths
PodSets ==
    {<<Pod(1, PyStr("10.0.0.0/" \o m))>> : m \in MaskLengths}
    \cup {<<Pod(1, PyStr("10.0.0.0/" \o m1)), Pod(2, PyStr("10.1.0.0/" \o m2))>> : m1 \in MaskLengths, m2 \in MaskLengths}

TepLists ==
    {<<"FabricSyncModule", "PodSyncModule", "NodeSyncModule">>,
     <<"FabricSyncModule", "BaseSyncModule", "PodSyncModule">>}

InitTep ==
    /\ settings \in [continue_on_error : BOOLEAN, dry_run : BOOLEAN, verify_updates : BOOLEAN]
    /\ modules \in TepLists
    /\ aci \in {TepData(pods) : pods \in PodSets}
    /\ nb = << >>
    /\ context = EmptyContext
    /\ stats = << >> /\ pc = "run_all" /\ mi = 1 /\ result = SyncResult("")
    /\ aci_objects = << >> /\ ri = 1 /\ run = 1 /\ faults = 0 /\ executed = << >>
    /\ moduleFailed = {} /\ calls = 0 /\ falses = 0 /\ writes = 0 /\ last = NoCall
    /\ escaped = FALSE
    /\ veCur = PyNone /\ veNew = PyNone /\ veRes = FALSE /\ vePc = "idle"
    /\ uIn = Nothing /\ uOut = Nothing /\ uPc = "idle"

SpecTep == InitTep /\ [][Next]_vars

(***************************************************************************)
(* SubnetSyncModule.sync_object on one record, one destination request at  *)
(* a time; log holds the requests made so far.                             *)
(***************************************************************************)
SubnetRecords ==
    {[Subnet("t1", bd, "") EXCEPT !.ip = ip, !.scope = PyStr(scope)] :
        bd \in {"b1", "b9"}, ip \in {PyStr("10.0.0.2/24"), PyStr("10.0.0.1/16"), PyNone},
        scope \in {"public,shared", "private"}}

\* the destination without the gateway address, with an address of the same
\* host and another mask length, and as an earlier sync of the subnet left it
SubnetDestinations ==
    {EpgSynced.nb,
     Append(EpgSynced.nb, [ep |-> "ip_addresses", f |-> [address |-> PyStr("10.0.0.2/32")]]),
     Subnet_sync_object(Subnet("t1", "b1", "10.0.0.2/24"), SyncResult("Subnet"), EpgSynced.nb, EpgSynced.ctx, [verify_updates |-> FALSE], "none").nb}

SubnetCalls ==
    [op : {"Subnet.sync_object"}, rec : SubnetRecords, nbs : SubnetDestinations,
     verify : BOOLEAN, fault : {"none", "ip", "ip_filter"} \cup RecordFaults]

SubnetStart(c) ==
    [nb |-> c.nbs, res |-> SyncResult("Subnet"), ret |-> FALSE, ip |-> 0, subnet |-> 0,
     writes |-> 0, log |-> << >>]

\* the "except Exception" handler of sync_object
SubnetExcept(st, entry, w) ==
    [st EXCEPT !.res = Except(st.res, st.nb, EpgSynced.ctx, 0).res, !.ret = FALSE,
               !.writes = @ + w, !.log = Append(@, entry)]

SubnetBdId(rec) == MapGet(EpgSynced.ctx.bd_map, Key(rec.tenant, rec.bridge_domain))

InitSubnet == InitIdle /\ uIn \in SubnetCalls /\ uOut = SubnetStart(uIn) /\ uPc = "guards"

\* the three "return False" checks ahead of the first request
SubnetGuards ==
    /\ uPc = "guards" /\ uIn.op = "Subnet.sync_object"
    /\ uPc' = IF \/ ~Truthy(Get(uIn.rec, "tenant")) \/ ~Truthy(Get(uIn.rec, "bridge_domain"))
                 \/ SubnetBdId(uIn.rec) = 0 \/ ~Truthy(Get(uIn.rec, "ip"))
              THEN "returned" ELSE "ip"
    /\ UNCHANGED <<uIn, uOut, idleVars>>

SubnetIpStep(ip) ==
    IF ip.raised
    THEN /\ uOut' = SubnetExcept(uOut, [call |-> "get_or_create_ip_address", raised |-> TRUE, id |-> 0, key |-> 0, created |-> FALSE], ip.wrote)
         /\ uPc' = "returned"
    ELSE /\ uOut' = [uOut EXCEPT !.nb = ip.nb, !.ip = ip.id, !.writes = @ + ip.wrote,
                                 !.log = Append(@, [call |-> "get_or_create_ip_address", raised |-> FALSE, id |-> ip.id, key |-> 0, created |-> ip.created])]
         /\ uPc' = "subnet"

\* self.netbox.get_or_create_ip_address(address=subnet_ip, ...)
SubnetIp ==
    /\ uPc = "ip"
    /\ SubnetIpStep(get_or_create_ip_address(uOut.nb, uIn.rec.ip[2], "description" :> PyStr("BD Subnet Gateway - " \o uIn.rec.bridge_domain[2]), uIn.fault))
    /\ UNCHANGED <<uIn, idleVars>>

SubnetGocStep(g) ==
    IF g.raised
    THEN /\ uOut' = SubnetExcept(uOut, [call |-> "get_or_create_subnet", raised |-> TRUE, id |-> 0, key |-> uOut.ip, created |-> FALSE], g.wrote)
         /\ uPc' = "returned"
    ELSE /\ uOut' = [uOut EXCEPT !.nb = g.nb, !.subnet = g.id, !.writes = @ + g.wrote,
                                 !.res = IF g.created THEN [@ EXCEPT !.created = @ + 1] ELSE @,
                                 !.ret = g.created,
                                 !.log = Append(@, [call |-> "get_or_create_subnet", raised |-> FALSE, id |-> g.id, key |-> uOut.ip, created |-> g.created])]
         /\ uPc' = IF g.created THEN "returned" ELSE "update"

\* self.netbox.get_or_create_subnet(bd_id=bd_id, gateway_ip=ip_obj.id, ...)
SubnetGetOrCreate ==
    /\ uPc = "subnet"
    /\ SubnetGocStep(get_or_create_subnet(uOut.nb, SubnetBdId(uIn.rec), uOut.ip, subnet_params(uIn.rec), uIn.fault = "goc1"))
    /\ UNCHANGED <<uIn, idleVars>>

SubnetUpdateStep(u) ==
    /\ uOut' = [uOut EXCEPT !.nb = u.nb, !.res = u.res, !.ret = TRUE, !.writes = @ + u.wrote]
    /\ uPc' = "returned"

\* the update branch of an existing subnet
SubnetUpdate ==
    /\ uPc = "update"
    /\ SubnetUpdateStep(InlineUpdate(uOut.res, uOut.nb, uOut.subnet, NotValuesEqual(uOut.nb[uOut.subnet].f, subnet_params(uIn.rec)), uIn.verify, uIn.fault))
    /\ UNCHANGED <<uIn, idleVars>>

NextSubnet == SubnetGuards \/ SubnetIp \/ SubnetGetOrCreate \/ SubnetUpdate

SpecSubnet == InitSubnet /\ [][NextSubnet]_vars

(***************************************************************************)
(* SoftwareVersionSyncModule.post_sync on the nodes of a fabric.           *)
(***************************************************************************)
MaxNodes == 3

\* the model and version a node reports; "N9K:1" with "6.0" and "N9K" with
\* "1:6.0" give the same key
NodeModels == {PyStr("N9K"), PyStr("N9K:1"), PyNone}

NodeVersions == {PyStr("6.0"), PyStr("1:6.0")}

FabricNodes(n) ==
    {[i \in 1..n |-> [Node(100 + i, "leaf" \o ToString(i), 1, "leaf", "10.0.0.1") EXCEPT !.model = mv[i][1], !.version = mv[i][2]]] :
        mv \in [1..n -> NodeModels \X NodeVersions]}

\* a destination with the devices of the nodes (the first without context
\* data, the second with context data of its own, the third with a firmware
\* entry for version 6.0 on an N9K beside it) and the device types of both
\* models
Inventory ==
    <<[ep |-> "devices", f |-> [name |-> PyStr("leaf1")]],
      [ep |-> "devices", f |-> [name |-> PyStr("leaf2"), local_context_data |-> <<"dict", "rack" :> PyStr("r1")>>]],
      [ep |-> "device_types", f |-> [model |-> PyStr("N9K")]],
      [ep |-> "device_types", f |-> [model |-> PyStr("N9K:1")]],
      [ep |-> "software_images", f |-> [version |-> PyStr("6.0")]],
      [ep |-> "software_images", f |-> [version |-> PyStr("1:6.0")]],
      [ep |-> "devices", f |-> [name |-> PyStr("leaf3"),
                                local_context_data |-> <<"dict", ("rack" :> PyStr("r2")) @@ ("firmware" :> firmware_context([version |-> PyStr("6.0"), model |-> PyStr("N9K"), serial |-> PyNone], EmptyDict))>>]]>>

\* sw_version_map as the record loop left it: empty (every sync_object
\* failed), one version, both versions
VersionMaps == {<< >>, "6.0" :> 5, ("6.0" :> 5) @@ ("1:6.0" :> 6)}

FirmwareMaps == {<< >>, "6.0" :> (("filename" :> PyStr("aci-n9000.bin")) @@ ("checksum" :> PyNone))}

Clients ==
    {[tracker |-> FALSE, assign |-> "raise"]}
    \cup [tracker : {TRUE}, assign : {"ok", "refused", "raise"}]

PostSyncCalls ==
    [op : {"SoftwareVersion.post_sync"},
     nodes : UNION {FabricNodes(n) : n \in 0..MaxNodes},
     sw_version_map : VersionMaps, fw : FirmwareMaps, client : Clients,
     nodes_fail : BOOLEAN]

GoldenStart(c) ==
    [nb |-> Inventory, i |-> 1, seen_device_types |-> {}, invoked |-> << >>, assigned |-> 0,
     stamped |-> << >>, devices_updated |-> 0]

InitGolden == InitIdle /\ uIn \in PostSyncCalls /\ uOut = GoldenStart(uIn) /\ uPc = "post_sync"

\* "if not sw_version_map: return", the nodes fetched again, and step 1
StampDevices ==
    /\ uPc = "post_sync" /\ uIn.op = "SoftwareVersion.post_sync"
    /\ IF uIn.sw_version_map = << >> \/ uIn.nodes_fail
       THEN uPc' = "returned" /\ UNCHANGED uOut
       ELSE /\ uOut' = stamp_devices(uOut, uIn.nodes, 1, uIn.fw, uIn.client)
            /\ uPc' = "golden"
    /\ UNCHANGED <<uIn, idleVars>>

\* one turn of the loop of step 2
GoldenNode ==
    /\ uPc = "golden" /\ uOut.i <= Len(uIn.nodes)
    /\ uOut' = [golden_node(uOut, uIn.nodes[uOut.i], uIn.sw_version_map, uIn.client) EXCEPT !.i = @ + 1]
    /\ UNCHANGED <<uIn, uPc, idleVars>>

GoldenEnd ==
    /\ uPc = "golden" /\ uOut.i > Len(uIn.nodes)
    /\ uPc' = "returned"
    /\ UNCHANGED <<uIn, uOut, idleVars>>

NextGolden == StampDevices \/ GoldenNode \/ GoldenEnd

SpecGolden == InitGolden /\ [][NextGolden]_vars

(***************************************************************************)
(* NetBoxClient._get_or_create, request by request: invocations of         *)
(* get_or_create_tenant on one destination, one after the other or         *)
(* interleaved (two clients syncing into the same destination).            *)
(***************************************************************************)
MaxCalls == 2

RaceCalls ==
    [op : {"_get_or_create"}, mode : {"sequential", "interleaved"},
     names : [1..MaxCalls -> {PyStr("t1"), PyStr("t2")}],
     nbs : {Synced.nb, SubSeq(Synced.nb, 1, 1)}]

\* an invocation: before its endpoint.get, between the get that found
\* nothing and its endpoint.create, or over
RaceStart(c) ==
    [nb |-> c.nbs, faults |-> 0,
     inv |-> [p \in 1..MaxCalls |-> [pc |-> "get", id |-> 0, created |-> FALSE, raised |-> FALSE, issued |-> 0]]]

\* variant: the lookup is by a field the tenants do not have
LookupParams_slug(name) == ("aci_fabric_id" :> PyInt(1)) @@ ("slug" :> name)

LookupParams(name) == ("aci_fabric_id" :> PyInt(1)) @@ ("name" :> name)

CreateParams(name) == ("aci_fabric" :> PyInt(1)) @@ ("name" :> name)

\* invocation p may take a step: in a sequential run only when the
\* invocations before it are over
MayStep(p) == uIn.mode = "sequential" => \A q \in 1..(p - 1) : uOut.inv[q].pc = "done"

\* existing = endpoint.get(**lookup_params); "if existing: return existing, False"
GotStep(p, fail, found) ==
    uOut' = [uOut EXCEPT
                !.faults = IF fail THEN @ + 1 ELSE @,
                !.inv[p] = IF fail \/ Cardinality(found) > 1 THEN [@ EXCEPT !.pc = "done", !.raised = TRUE]
                           ELSE IF found /= {} THEN [@ EXCEPT !.pc = "done", !.id = CHOOSE i \in found : TRUE]
                           ELSE [@ EXCEPT !.pc = "create"]]

RaceGet ==
    /\ uPc = "race" /\ uIn.op = "_get_or_create"
    /\ \E p \in 1..MaxCalls :
          /\ uOut.inv[p].pc = "get" /\ MayStep(p)
          /\ \E fail \in (IF uOut.faults < MaxFaults THEN BOOLEAN ELSE {FALSE}) :
                GotStep(p, fail, Find(uOut.nb, "tenants", LookupParams(uIn.names[p])))
    /\ UNCHANGED <<uIn, uPc, idleVars>>

\* new_obj = endpoint.create(create_params); "return new_obj, True"
CreatedStep(p, fail) ==
    uOut' = [uOut EXCEPT
                !.faults = IF fail THEN @ + 1 ELSE @,
                !.nb = IF fail THEN @ ELSE Created(@, "tenants", CreateParams(uIn.names[p])).nb,
                !.inv[p] = IF fail THEN [@ EXCEPT !.pc = "done", !.raised = TRUE, !.issued = 1]
                           ELSE [@ EXCEPT !.pc = "done", !.id = Len(uOut.nb) + 1, !.created = TRUE, !.issued = 1]]

RaceCreate ==
    /\ uPc = "race"
    /\ \E p \in 1..MaxCalls :
          /\ uOut.inv[p].pc = "create" /\ MayStep(p)
          /\ \E fail \in (IF uOut.faults < MaxFaults THEN BOOLEAN ELSE {FALSE}) : CreatedStep(p, fail)
    /\ UNCHANGED <<uIn, uPc, idleVars>>

RaceEnd ==
    /\ uPc = "race" /\ \A p \in 1..MaxCalls : uOut.inv[p].pc = "done"
    /\ uPc' = "returned"
    /\ UNCHANGED <<uIn, uOut, idleVars>>

InitRace == InitIdle /\ uIn \in RaceCalls /\ uOut = RaceStart(uIn) /\ uPc = "race"

NextRace == RaceGet \/ RaceCreate \/ RaceEnd

SpecRace == InitRace /\ [][NextRace]_vars

(***************************************************************************)
(* One client over a sequence of relation creates and existence checks.    *)
(* created holds the (type, object, contract, role) of the creates that    *)
(* returned True; gets counts the GETs of the list since the cache was     *)
(* last invalidated, peak is the most that count has been; getFailed says  *)
(* the cached list comes from a GET that failed.                           *)
(***************************************************************************)
MaxRelCalls == 3

CacheRuns == [op : {"relation_cache"}, links : LinkStores, prefetched : BOOLEAN]

CacheStart(c) ==
    [links |-> c.links,
     cache |-> IF c.prefetched THEN [fetched |-> TRUE, rels |-> c.links] ELSE NoCache,
     created |-> {}, gets |-> IF c.prefetched THEN 1 ELSE 0,
     peak |-> IF c.prefetched THEN 1 ELSE 0, getFailed |-> FALSE, n |-> 0,
     last |-> [op |-> "none", ret |-> FALSE, key |-> << >>, filter |-> ""]]

\* the GETs after a call that found the cache as it is in st
GetsAfter(st) == st.gets + (IF st.cache.fetched THEN 0 ELSE 1)

\* whether the list now cached comes from a failed GET
FailedAfter(st, fault) == IF st.cache.fetched THEN st.getFailed ELSE fault = "get"

\* the client after a create call that gave r
CacheCreated(st, op, type, key, r, fault) ==
    [links |-> r.links, cache |-> r.cache,
     created |-> IF r.ret THEN st.created \cup {<<type>> \o key} ELSE st.created,
     gets |-> IF r.ret THEN 0 ELSE GetsAfter(st),
     peak |-> IF GetsAfter(st) > st.peak THEN GetsAfter(st) ELSE st.peak,
     getFailed |-> IF r.ret THEN FALSE ELSE FailedAfter(st, fault),
     n |-> st.n + 1,
     last |-> [op |-> op, ret |-> r.ret, key |-> key, filter |-> ""]]

\* the client after _relation_exists(object_id, contract_id, role, filter)
CacheChecked(st, key, filter, fetched, fault) ==
    [st EXCEPT !.cache = fetched,
               !.gets = GetsAfter(st),
               !.peak = IF GetsAfter(st) > @ THEN GetsAfter(st) ELSE @,
               !.getFailed = FailedAfter(st, fault),
               !.n = @ + 1,
               !.last = [op |-> "_relation_exists",
                         ret |-> relation_exists(fetched.rels, key[1], key[2], key[3], filter),
                         key |-> key, filter |-> filter]]

InitRelCache == InitIdle /\ uIn \in CacheRuns /\ uOut = CacheStart(uIn) /\ uPc = "calls"

CacheCreateEpg ==
    /\ uPc = "calls" /\ uIn.op = "relation_cache" /\ uOut.n < MaxRelCalls
    /\ \E o \in 1..MaxObjId, role \in {"prov", "cons"}, fault \in RelFaults :
          uOut' = CacheCreated(uOut, "create_contract_relation",
                      "netbox_aci_plugin.aciendpointgroup", <<o, 1, role>>,
                      create_contract_relation(uOut.links, uOut.cache, 1, o, role, 1, 0, fault),
                      fault)
    /\ UNCHANGED <<uIn, uPc, idleVars>>

CacheCreateVrf ==
    /\ uPc = "calls" /\ uOut.n < MaxRelCalls
    /\ \E o \in 1..MaxObjId, role \in {"prov", "cons"}, fault \in RelFaults :
          uOut' = CacheCreated(uOut, "create_vrf_contract_relation",
                      "netbox_aci_plugin.acivrf", <<o, 1, role>>,
                      create_vrf_contract_relation(uOut.links, uOut.cache, o, 1, role, 1, fault),
                      fault)
    /\ UNCHANGED <<uIn, uPc, idleVars>>

CacheExists ==
    /\ uPc = "calls" /\ uOut.n < MaxRelCalls
    /\ \E o \in 1..MaxObjId, role \in {"prov", "cons"}, filter \in {"", "vrf"}, fault \in {"none", "get"} :
          uOut' = CacheChecked(uOut, <<o, 1, role>>, filter,
                      fetch_contract_relations(uOut.cache, uOut.links, fault), fault)
    /\ UNCHANGED <<uIn, uPc, idleVars>>

CacheEnd ==
    /\ uPc = "calls" /\ uOut.n = MaxRelCalls
    /\ uPc' = "returned"
    /\ UNCHANGED <<uIn, uOut, idleVars>>

NextRelCache == CacheCreateEpg \/ CacheCreateVrf \/ CacheExists \/ CacheEnd

SpecRelCache == InitRelCache /\ [][NextRelCache]_vars

(***************************************************************************)
(* A sequence of _get_or_create_cached calls sharing one cache: the pods   *)
(* of fabric 1, the cache empty or filled by fetch_all_pods.               *)
(***************************************************************************)
MaxCachedCalls == 3

\* a destination with the fabric, and one with pod 1 as well
PodStores ==
    {<<[ep |-> "fabrics", f |-> [name |-> PyStr("ACI_Fabric"), fabric_id |-> PyInt(1)]]>>,
     <<[ep |-> "fabrics", f |-> [name |-> PyStr("ACI_Fabric"), fabric_id |-> PyInt(1)]],
       [ep |-> "pods", f |-> [aci_fabric |-> PyObj(1), pod_id |-> PyInt(1), name |-> PyStr("pod-1")]]>>}

CachedRuns ==
    [op : {"_get_or_create_cached"}, keys : [1..MaxCachedCalls -> 1..2],
     nbs : PodStores, prefetched : BOOLEAN]

CachedStart(c) ==
    [nb |-> c.nbs, cache |-> IF c.prefetched THEN fetch_all_pods(c.nbs, 1) ELSE << >>,
     log |-> << >>]

\* the client after a call that gave g
CachedCalled(st, key, g) ==
    [nb |-> g.nb, cache |-> g.cache,
     log |-> Append(st.log, [key |-> key, raised |-> g.raised, id |-> g.id,
                             created |-> g.created, wrote |-> g.wrote,
                             before |-> st.cache, after |-> g.cache])]

InitCached == InitIdle /\ uIn \in CachedRuns /\ uOut = CachedStart(uIn) /\ uPc = "calls"

CallCached ==
    /\ uPc = "calls" /\ uIn.op = "_get_or_create_cached" /\ Len(uOut.log) < MaxCachedCalls
    /\ \E fail \in BOOLEAN :
          uOut' = CachedCalled(uOut, uIn.keys[Len(uOut.log) + 1],
                      get_or_create_pod_cached(uOut.cache, uIn.keys[Len(uOut.log) + 1], 1, uOut.nb, fail))
    /\ UNCHANGED <<uIn, uPc, idleVars>>

CachedEnd ==
    /\ uPc = "calls" /\ Len(uOut.log) = MaxCachedCalls
    /\ uPc' = "returned"
    /\ UNCHANGED <<uIn, uOut, idleVars>>

NextCached == CallCached \/ CachedEnd

SpecCached == InitCached /\ [][NextCached]_vars

(***************************************************************************)
(* The two copies of the field-diff predicate called with the same pair;   *)
(* kept is whether _update_if_changed, given an object whose field a is    *)
(* current and the update a = new, finds a change to send.                 *)
(***************************************************************************)
CopyCalls == [op : {"values_equal / _values_equal"}, current : PyValues, new : PyValues]

InitCopies == InitIdle /\ uIn \in CopyCalls /\ uOut = Nothing /\ uPc = "call"

CallBothCopies ==
    /\ uPc = "call" /\ uIn.op = "values_equal / _values_equal"
    /\ uOut' = [base |-> values_equal(uIn.current, uIn.new),
                client |-> nb_values_equal(uIn.current, uIn.new),
                differs |-> Differs(uIn.current, uIn.new),
                kept |-> update_if_changed(<<[ep |-> "x", f |-> [a |-> uIn.current]]>>, 1, [a |-> uIn.new], FALSE, "none").changed]
    /\ uPc' = "returned"
    /\ UNCHANGED <<uIn, idleVars>>

NextCopies == CallBothCopies

SpecCopies == InitCopies /\ [][NextCopies]_vars

(***************************************************************************)
(* Properties.                                                             *)
(***************************************************************************)
AllResults == {stats[i] : i \in 1..Len(stats)}

Running == pc \in {"pre_sync", "fetch", "dry_run", "loop", "post_sync", "sync_return"}

\* C1: a second run against the same source data and the destination the
\* first run left reports created = 0 and updated = 0 in every module result.
C1_Idempotent ==
    (run = 2 /\ faults = 0) =>
        \A r \in AllResults : r.created = 0 /\ r.updated = 0

\* C2: run_all runs the modules one at a time in the order of its list: a
\* module is instantiated only when run_all is between modules and every
\* earlier result is in the stats; no position is run twice, skipped or
\* reordered; stats.results holds the results of the executed modules in
\* that order.
C2_ListOrder ==
    /\ [](/\ \A i, j \in 1..Len(executed) : i < j => executed[i] < executed[j]
          /\ {executed[i] : i \in 1..Len(executed)} =
                {k \in 1..Len(modules) :
                    ~Abstract(modules[k]) /\ (k < mi \/ (k = mi /\ Running))}
          /\ Len(stats) = Len(executed) - (IF Running THEN 1 ELSE 0)
          /\ \A i \in 1..Len(stats) :
                stats[i].object_type = object_type(modules[executed[i]]))
    /\ [][Len(executed') > Len(executed) =>
            /\ ~Running /\ Len(stats) = Len(executed)
            /\ executed' = Append(executed, mi)]_vars

C2_Witness ==
    /\ pc = "done" /\ Len(stats) = 3
    /\ modules = <<"FabricSyncModule", "VRFSyncModule", "TenantSyncModule">>
    /\ stats[2].object_type = "VRF" /\ stats[3].object_type = "Tenant"

\* C3 as stated: in a non-dry run every fetched record is passed to
\* sync_object, whatever continue_on_error is.
C3_Original ==
    (pc = "post_sync" /\ ~settings.dry_run) => calls = Len(aci_objects)

\* C3: in a non-dry run with continue_on_error set, every fetched record is
\* passed to sync_object, a failure of one record does not stop the loop;
\* with continue_on_error unset the loop stops at the first record whose
\* sync_object returns False, and runs to the end when there is none.
C3_Isolation ==
    /\ pc = "loop" => calls = ri - 1 /\ (~settings.continue_on_error => falses = 0)
    /\ (pc = "post_sync" /\ ~settings.dry_run) =>
          IF settings.continue_on_error
          THEN calls = Len(aci_objects)
          ELSE \/ falses = 0 /\ calls = Len(aci_objects)
               \/ falses = 1 /\ ~last.ret /\ last.idx = calls

C3_Witness ==
    /\ pc = "post_sync" /\ ~settings.dry_run /\ settings.continue_on_error
    /\ falses >= 1 /\ last.ret /\ last.idx = 3 /\ calls = 3

\* C4: outside ContractRelationship sync_object never raises, and whenever a
\* destination call of the record fails (the get-or-create or the update
\* raises) it returns False, failed grows by one and one error is appended.
C4_Original ==
    last.cls /= "none" =>
        /\ ~last.raised
        /\ last.failedCall /= "none" =>
              ~last.ret /\ last.failedDelta = 1 /\ last.errorsDelta = 1

\* C5: a module whose hook (pre_sync, fetch_from_aci, post_sync) raised has
\* the error in its error list; with continue_on_error unset no later module
\* of the list is run, with it set the run goes on to the end of the list.
C5_Original ==
    /\ (pc = "sync_return" /\ mi \in moduleFailed) => Len(result.errors) >= 1
    /\ ~settings.continue_on_error =>
          \A k \in moduleFailed : \A i \in 1..Len(executed) : executed[i] <= k
    /\ (settings.continue_on_error /\ pc = "done") => mi = Len(modules) + 1

\* C6: no exception leaves run_all, whatever fails (constructor, hook,
\* destination request) and whatever continue_on_error is; when run_all has
\* returned, the stats hold one result for every module that was run.
C6_NoEscape ==
    /\ ~escaped /\ pc /= "escaped"
    /\ pc = "done" => Len(stats) = Len(executed)

C6_Witness ==
    /\ pc = "done" /\ moduleFailed /= {} /\ Abstract(modules[2])
    /\ Len(stats) = 2

\* C7 as stated: a record whose cross-reference is missing is skipped with
\* sync_object returning True, failed untouched, the next records processed.
C7_Original ==
    last.skipped => last.ret /\ last.failedDelta = 0 /\ last.continued

\* C7: a record whose cross-reference is missing is skipped with sync_object
\* returning False: no counter changes, no error is appended, no destination
\* request is made; the loop goes on to the next record exactly when
\* continue_on_error is set.
C7_Skip ==
    last.skipped =>
        /\ ~last.ret
        /\ last.failedDelta = 0 /\ last.errorsDelta = 0 /\ last.writes = 0
        /\ last.continued <=> settings.continue_on_error

C7_Witness ==
    /\ last.cls = "BridgeDomainSyncModule" /\ last.idx = 3 /\ ~last.skipped
    /\ last.ret /\ falses = 1 /\ result.failed = 0 /\ faults = 0

\* C8: under dry_run no sync_object call and no destination create or update
\* is made, and a module's result has unchanged = number of fetched records
\* and created = updated = failed = 0.
C8_DryRun ==
    settings.dry_run =>
        /\ calls = 0 /\ writes = 0 /\ last = NoCall /\ nb \in Destinations
        /\ Running => result.created = 0 /\ result.updated = 0 /\ result.failed = 0
        /\ pc \in {"post_sync", "sync_return"} => result.unchanged = Len(aci_objects)
        /\ \A r \in AllResults : r.created = 0 /\ r.updated = 0 /\ r.failed = 0

C8_Witness ==
    /\ settings.dry_run /\ pc = "sync_return" /\ result.unchanged = 3
    /\ Len(aci_objects) = 3 /\ nb = << >>

Unset == {PyNone, PyStr(""), PyBool(FALSE), PyInt(0)}

EmptyEquivalent == {PyNone, PyStr(""), PyBool(FALSE)}

\* C9 as stated: values_equal is True for every current in {None, "", False,
\* 0} and every proposed in {None, "", False}.
C9_Original ==
    (vePc = "returned" /\ veCur \in Unset /\ veNew \in EmptyEquivalent) => veRes

\* C9: for current in {None, ""} and proposed in {None, "", False}
\* values_equal is True; for current in {False, 0} it is True exactly when
\* proposed is False.
C9_Unset ==
    (vePc = "returned" /\ veCur \in Unset /\ veNew \in EmptyEquivalent) =>
        (veRes <=> (veCur \in {PyNone, PyStr("")} \/ veNew = PyBool(FALSE)))

C9_Witness ==
    vePc = "returned" /\ veCur = PyStr("") /\ veNew = PyNone /\ veRes

\* C10: for a boolean proposed value p, values_equal(c, p) is bool(c) = p,
\* None counting as False.
C10_BoolCoercion ==
    (vePc = "returned" /\ Tag(veNew) = "bool") =>
        (veRes <=> (Truthy(veCur) <=> veNew[2]))

C10_Witness ==
    vePc = "returned" /\ veCur = PyNone /\ veNew = PyBool(FALSE) /\ veRes

\* C11 as stated: when an operand is an object exposing an id, values_equal
\* is True exactly when the id equals the other operand (reduced likewise).
C11_Original ==
    (vePc = "returned" /\ "obj" \in {Tag(veCur), Tag(veNew)}) =>
        (veRes <=> PyEq(ReduceId(veCur), ReduceId(veNew)))

\* C11: when an operand is an object exposing an id it is replaced by that id;
\* for a proposed value that is not a boolean values_equal is then True
\* exactly when the two reduced operands are equal, and for a boolean proposed
\* value p it is True exactly when bool(id) = p.
C11_Reduction ==
    (vePc = "returned" /\ "obj" \in {Tag(veCur), Tag(veNew)}) =>
        IF Tag(veNew) = "bool"
        THEN veRes <=> (Truthy(ReduceId(veCur)) <=> veNew[2])
        ELSE veRes <=> PyEq(ReduceId(veCur), ReduceId(veNew))

C11_Witness ==
    vePc = "returned" /\ veCur = PyObj(2) /\ veNew = PyInt(2) /\ veRes

\* the mapped source field at position i of the field map is present with a
\* non-None value whose conversion differs from the existing object's field
Qualifies(c, i) ==
    /\ c.field_map[i][1] \in DOMAIN c.aci_data
    /\ c.aci_data[c.field_map[i][1]] /= PyNone
    /\ ~values_equal(Get(c.existing_obj, c.field_map[i][2]), Convert(c.converters, c.field_map[i][1], c.aci_data[c.field_map[i][1]]))

\* C12: without extra_updates, _build_updates returns exactly the destination
\* fields mapped from a source field that is present, not None and whose
\* converted value is not values_equal to the existing object's field, each
\* with the converted value of such a source field; absent, None and equal
\* fields never appear.
C12_BuildUpdates ==
    (uPc = "returned" /\ uIn.op = "_build_updates" /\ uIn.extra_updates = EmptyDict) =>
        /\ DOMAIN uOut.updates = {uIn.field_map[i][2] : i \in {j \in 1..Len(uIn.field_map) : Qualifies(uIn, j)}}
        /\ \A f \in DOMAIN uOut.updates :
              \E i \in 1..Len(uIn.field_map) :
                  /\ Qualifies(uIn, i) /\ uIn.field_map[i][2] = f
                  /\ uOut.updates[f] = Convert(uIn.converters, uIn.field_map[i][1], uIn.aci_data[uIn.field_map[i][1]])

C12_Witness ==
    /\ uPc = "returned" /\ uIn.op = "_build_updates" /\ uIn.extra_updates = EmptyDict
    /\ uIn.field_map = <<<<"a", "x">>, <<"b", "y">>>>
    /\ uIn.converters = "a" :> "bool"
    /\ uIn.aci_data = [a |-> PyStr("a"), b |-> PyInt(1)]
    /\ uIn.existing_obj = [x |-> PyNone, y |-> PyObj(1)]
    /\ uOut.updates = "x" :> PyBool(TRUE)

\* what the call added to a counter
Delta(counter) == uOut.res[counter] - uIn.res[counter]

\* C13: a call of _apply_updates adds one to exactly one of updated and
\* unchanged, adds to verified (one) only when it added to updated, and
\* leaves created and failed as they were.
C13_ApplyUpdates ==
    (uPc = "returned" /\ uIn.op = "_apply_updates") =>
        /\ <<Delta("updated"), Delta("unchanged")>> \in {<<1, 0>>, <<0, 1>>}
        /\ Delta("verified") \in {0, 1}
        /\ Delta("verified") = 1 => Delta("updated") = 1
        /\ Delta("created") = 0 /\ Delta("failed") = 0

C13_Witness ==
    /\ uPc = "returned" /\ uIn.op = "_apply_updates"
    /\ uIn.updates = [description |-> PyStr("a")] /\ uIn.verify /\ uIn.fault = "none"
    /\ Delta("updated") = 1 /\ Delta("verified") = 1
    /\ uOut.nb[1].f.description = PyStr("a")

\* the BridgeDomain module is running
InBridgeDomain ==
    Running /\ mi <= Len(modules) /\ modules[mi] = "BridgeDomainSyncModule"

\* C14: while the BridgeDomain module runs with vrf_map still empty, every
\* sync_object call is a skip that makes no destination request, created and
\* updated stay 0 and bd_map stays empty; in a first run the destination
\* holds no bridge domain.
C14_VrfMapEmpty ==
    (InBridgeDomain /\ context.vrf_map = << >>) =>
        /\ result.created = 0 /\ result.updated = 0
        /\ context.bd_map = << >>
        /\ falses = calls
        /\ calls > 0 => (last.cls = "BridgeDomainSyncModule" /\ last.skipped /\ last.writes = 0)
        /\ run = 1 => \A i \in DOMAIN nb : nb[i].ep /= "bridge_domains"

C14_Witness ==
    /\ InBridgeDomain /\ pc = "sync_return" /\ context.vrf_map = << >>
    /\ modules[4] = "VRFSyncModule" /\ DOMAIN context.tenant_map = {"t1", "t2"}
    /\ calls = 3 /\ falses = 3 /\ result.created = 0

\* the bridge domain record of the last sync_object call
LastBd == aci.BridgeDomainSyncModule[last.idx]

\* the destination's bridge domains with the name and tenant of the record
StoredBd(rec) ==
    {i \in DOMAIN nb : /\ nb[i].ep = "bridge_domains"
                       /\ nb[i].f.name = rec.name
                       /\ nb[i].f.aci_tenant = PyObj(MapGet(context.tenant_map, rec.tenant[2]))}

\* C15 as stated: a bridge domain record whose vrf_tenant differs from its
\* tenant is resolved against vrf_map["{vrf_tenant}/{vrf}"]: when that key is
\* in vrf_map the record is not skipped and the bridge domain stored in the
\* destination refers to that VRF.
C15_Original ==
    (/\ InBridgeDomain /\ calls > 0 /\ last.cls = "BridgeDomainSyncModule"
     /\ last.fault = "none" /\ faults = 0 /\ run = 1
     /\ LastBd.vrf_tenant /= LastBd.tenant
     /\ MapGet(context.tenant_map, LastBd.tenant[2]) /= 0
     /\ MapGet(context.vrf_map, Key(LastBd.vrf_tenant, LastBd.vrf)) /= 0) =>
        /\ ~last.skipped
        /\ \E i \in StoredBd(LastBd) :
              nb[i].f.aci_vrf = PyObj(MapGet(context.vrf_map, Key(LastBd.vrf_tenant, LastBd.vrf)))

\* the values the MAC filter is said to drop
Placeholder(v) ==
    \/ v \in {PyNone, PyStr("")}
    \/ Lower(v[2]) \in {"not-applicable", "n/a", "none"}
    \/ (~HasColon(v[2]) /\ ~HasDash(v[2]))

\* C16: a mac or vmac source value that is empty, a placeholder
\* ("not-applicable", "n/a", "none" in any case) or without ':' and '-' is in
\* neither the create parameter set nor the update set; any other value is in
\* the create parameter set unchanged, and in the update set unchanged when it
\* differs from the destination's value: both filters accept the same values.
C16_MacFilter ==
    (uPc = "returned" /\ uIn.op = "BridgeDomain.sync_object") =>
        \A p \in {<<"mac", "mac_address">>, <<"vmac", "virtual_mac_address">>} :
            /\ p[2] \in DOMAIN uOut.bd_params <=> ~Placeholder(uIn.rec[p[1]])
            /\ p[2] \in DOMAIN uOut.bd_params => uOut.bd_params[p[2]] = uIn.rec[p[1]]
            /\ uOut.existed =>
                  (p[2] \in DOMAIN uOut.updates <=>
                      (~Placeholder(uIn.rec[p[1]]) /\ ~values_equal(Get(uOut.current, p[2]), uIn.rec[p[1]])))
            /\ p[2] \in DOMAIN uOut.updates => uOut.updates[p[2]] = uIn.rec[p[1]]
            /\ ~uOut.existed =>
                  \E i \in DOMAIN uOut.o.nb :
                      /\ uOut.o.nb[i].ep = "bridge_domains"
                      /\ p[2] \in DOMAIN uOut.o.nb[i].f <=> ~Placeholder(uIn.rec[p[1]])

C16_Witness ==
    /\ uPc = "returned" /\ uIn.op = "BridgeDomain.sync_object" /\ uOut.existed
    /\ uIn.rec.mac = PyStr("00:11:22:33:44:ab") /\ uIn.rec.vmac = PyStr("N/A")
    /\ Get(uOut.current, "mac_address") = PyStr("00:22:BD:F8:19:FF")
    /\ uOut.updates = [mac_address |-> PyStr("00:11:22:33:44:ab")]
    /\ uOut.o.res.updated = 1

\* the type of link the called create function makes
RelType == IF uIn.op = "create_vrf_contract_relation" THEN "netbox_aci_plugin.acivrf" ELSE "netbox_aci_plugin.aciendpointgroup"

\* the links of a store between the called object and contract in the role
SameLinks(links) ==
    {i \in DOMAIN links : /\ links[i].aci_object_type = RelType
                          /\ links[i].aci_object_id = uIn.object_id
                          /\ links[i].aci_contract = uIn.contract_id
                          /\ links[i].role = uIn.role}

\* C17 as stated: when the link between the object and the contract in the
\* role is not in the destination and no request fails, two calls in
\* succession with the same (object_id, contract_id, role) leave exactly one
\* such link; the first call returns True, the second issues no create
\* request and returns False.
C17_Original ==
    (/\ uPc = "returned" /\ uIn.op \in RelOps
     /\ uOut.faults = <<"none", "none">> /\ SameLinks(uIn.links) = {}) =>
        /\ uOut.rets = <<TRUE, FALSE>>
        /\ uOut.posts[2] = 0
        /\ Cardinality(SameLinks(uOut.links)) = 1

\* C18: throughout a ContractRelationship module run failed is 0 and no
\* error is recorded; a record whose link could not be created (the POST
\* raised or came back with an error status) adds one to unchanged, makes
\* sync_object return True and lets the loop go on.
C18_NeverFailed ==
    uIn.op = "ContractRelationship.sync" =>
        /\ uOut.res.failed = 0 /\ uOut.res.errors = << >>
        /\ (uOut.last.attempted /\ uOut.last.fault \in {"post_status", "post_raise"} /\ ~uOut.last.created) =>
              (uOut.last.unchangedDelta = 1 /\ uOut.last.ret /\ uOut.last.continued)

C18_Witness ==
    /\ uIn.op = "ContractRelationship.sync" /\ uPc = "returned" /\ ~uIn.continue_on_error
    /\ uOut.ri = 3 + 1 /\ uOut.res.unchanged = 2 /\ uOut.res.created = 0
    /\ uOut.links = << >> /\ uOut.res.failed = 0

\* C19 as stated: the program exits with 1 when the configuration is invalid
\* or a connection cannot be established, with 130 when the run is
\* interrupted by the user, with 1 when a module reports failures, and with 0
\* when the run completes with a total failed count of zero.
C19_Original ==
    (uPc = "returned" /\ uIn.op = "run_sync" /\ ~uIn.raises) =>
        uOut.exit = IF ~uIn.config_valid \/ ~uIn.aci_connect \/ ~uIn.netbox_connect THEN 1
                    ELSE IF uIn.interrupt THEN 130
                    ELSE IF uIn.failed = <<0, 0>> THEN 0 ELSE 1

\* SyncStats.total_created, total_updated, total_failed
RECURSIVE TotalTo(_, _)
TotalTo(counter, n) == IF n = 0 THEN 0 ELSE stats[n][counter] + TotalTo(counter, n - 1)

Total(counter) == TotalTo(counter, Len(stats))

\* a first run of the four modules, in module order, finished without any
\* failure and not as a dry run
FirstRunDone ==
    /\ modules = <<"FabricSyncModule", "TenantSyncModule", "VRFSyncModule", "BridgeDomainSyncModule">>
    /\ run = 1 /\ pc = "done" /\ faults = 0 /\ ~settings.dry_run

\* C20: the first run of Fabric, Tenant, VRF and BridgeDomain on an empty
\* destination with one record each gives totals created = 4, updated = 0,
\* failed = 0, and the VRF stored in the destination has
\* ip_data_plane_learning_enabled = True (the boolean).
C20_FirstRun ==
    FirstRunDone =>
        /\ Total("created") = 4 /\ Total("updated") = 0 /\ Total("failed") = 0
        /\ \E i \in DOMAIN nb :
              /\ nb[i].ep = "vrfs" /\ nb[i].f.name = PyStr("VRF1")
              /\ nb[i].f.ip_data_plane_learning_enabled = PyBool(TRUE)

C20_Witness ==
    /\ FirstRunDone /\ Len(stats) = 4 /\ Len(nb) = 4 /\ Total("created") = 4
    /\ nb[4].ep = "bridge_domains" /\ nb[4].f.aci_vrf = PyObj(3)

\* the second run of the four modules, in module order, finished without any
\* failure in either run, the source having changed between the two
RerunDone ==
    /\ modules = <<"FabricSyncModule", "TenantSyncModule", "VRFSyncModule", "BridgeDomainSyncModule">>
    /\ run = 2 /\ pc = "done" /\ faults = 0 /\ ~settings.dry_run /\ aci = ScenarioChanged

\* C21: the scenario run again with only the VRF's ip_data_plane_learning
\* changed to "disabled" gives 1 updated (the VRF result, the stored VRF
\* then holding ip_data_plane_learning_enabled = False), 3 unchanged,
\* 0 created and 0 failed.
C21_Rerun ==
    RerunDone =>
        /\ Total("updated") = 1 /\ Total("unchanged") = 3
        /\ Total("created") = 0 /\ Total("failed") = 0
        /\ stats[3].object_type = "VRF" /\ stats[3].updated = 1
        /\ \E i \in DOMAIN nb :
              /\ nb[i].ep = "vrfs" /\ nb[i].f.name = PyStr("VRF1")
              /\ nb[i].f.ip_data_plane_learning_enabled = PyBool(FALSE)

C21_Witness ==
    /\ RerunDone /\ Len(stats) = 4 /\ Len(nb) = 4 /\ stats[3].updated = 1
    /\ stats[4].unchanged = 1 /\ settings.verify_updates /\ stats[3].verified = 1

\* l is SYNC_MODULE_ORDER with some modules left out
IsOrderedSubList(l) ==
    l = SelectSeq(SYNC_MODULE_ORDER, LAMBDA m : IndexFrom(l, m, 1) # 0)

Selected == uPc = "returned" /\ uIn.op = "get_modules_to_sync"

\* C22 as stated: for every --only or --skip selection the list returned by
\* get_modules_to_sync is an order-preserving sub-list of SYNC_MODULE_ORDER
\* (whatever the order of the types on the command line) and holds no
\* module twice.
C22_Original == Selected => IsOrderedSubList(uOut.modules)

\* the name-to-ID maps of the Context
ContextMaps ==
    {"tenant_map", "vrf_map", "bd_map", "pod_map", "node_map", "ap_map", "epg_map",
     "esg_map", "filter_map", "contract_map", "subject_map"}

\* C23: while the Context holds no fabric_id, the modules from Pod to
\* ContractRelationship issue no destination create or update and every
\* name-to-ID map of the Context stays empty.
C23_FabricDependency ==
    context.fabric_id = 0 =>
        /\ writes = 0 /\ nb = << >>
        /\ \A m \in ContextMaps : context[m] = << >>

C23_Witness ==
    /\ pc = "done" /\ modules = Tail(SYNC_MODULE_ORDER) /\ Len(stats) = 12
    /\ ~settings.dry_run /\ settings.continue_on_error /\ faults = 0
    /\ stats[12].object_type = "ContractRelationship"
    /\ last.cls = "ContractRelationshipSyncModule" /\ last.idx = 2 /\ ~last.ret
    /\ context.fabric_id = 0

\* one step of a module run, seen through the phases of sync
PhaseStep ==
    /\ pc' = "fetch" => pc = "pre_sync"
    /\ pc' \in {"loop", "dry_run"} /\ pc' # pc => pc = "fetch"
    /\ calls' > calls => pc = "loop" /\ aci_objects' = aci_objects
    /\ pc' = "post_sync" /\ pc # "post_sync" =>
          \/ pc = "dry_run" /\ calls' = 0
          \/ pc = "loop" /\ calls' = Len(aci_objects)
          \/ /\ pc = "loop" /\ ~settings.continue_on_error
             /\ ~last'.raised /\ ~last'.ret /\ calls' = last'.idx
    /\ pc = "post_sync" /\ pc' # pc => pc' = "sync_return"
    /\ pc = "loop" /\ pc' # pc =>
          \/ pc' = "post_sync"
          \/ pc' = "sync_return" /\ last'.raised /\ ~settings.continue_on_error

\* C24: in every module run pre_sync completes before fetch_from_aci and
\* fetch before the first sync_object; post_sync is invoked once, when the
\* record loop has ended without a module-level exception: after sync_object
\* was called for every fetched record, or after the sync_object that
\* returned False while continue_on_error is unset (the loop breaks there),
\* or, in a dry run, with no sync_object call at all.
C24_PhaseOrder == [][PhaseStep]_vars

C24_Witness ==
    /\ pc = "post_sync" /\ ~settings.dry_run /\ Len(aci_objects) = 2 /\ calls = 2
    /\ last.idx = 2 /\ faults = 0

\* C24 as stated: post_sync is invoked only after sync_object has returned
\* for every fetched record.
C24_Original == pc = "post_sync" => calls = Len(aci_objects)

\* where the stated order fails: post_sync after a break that left a record
\* of the list without its sync_object call
C24_Break ==
    ~(/\ pc = "post_sync" /\ ~settings.dry_run /\ ~settings.continue_on_error
      /\ calls < Len(aci_objects) /\ ~last.raised /\ ~last.ret)

\* sync_object of ContractRelationship has just handled the record at last.idx
RelHandled ==
    /\ mi <= Len(modules) /\ modules[mi] = "ContractRelationshipSyncModule"
    /\ last.cls = "ContractRelationshipSyncModule" /\ pc \in {"loop", "post_sync", "sync_return"}

\* that record's relationship was created: it is the newest object
RelPosted == RelHandled /\ last.fault = "none" /\ last.writes = 1 /\ nb[Len(nb)].ep = "contract_relations"

OwnContract(rec) == MapGet(context.contract_map, <<rec.tenant, rec.contract>>)

CommonContract(rec) == MapGet(context.contract_map, <<"common", rec.contract>>)

ResolvedAs(rec, sent) ==
    IF OwnContract(rec) # 0
    THEN sent.aci_contract = OwnContract(rec) /\ sent.aci_tenant = MapGet(context.tenant_map, rec.tenant)
    ELSE /\ CommonContract(rec) # 0 /\ sent.aci_contract = CommonContract(rec)
         /\ "common" \in DOMAIN context.tenant_map
         /\ sent.aci_tenant = context.tenant_map["common"]

\* C25: a relationship is created with contract_map["{tenant}/{contract}"]
\* when that key is present; only when it is absent with
\* contract_map["common/{contract}"], and then with the common tenant's id as
\* its tenant; with neither key present sync_object returns False and no
\* create is issued.
C25_ContractResolution ==
    /\ RelPosted => ResolvedAs(aci_objects[last.idx], nb[Len(nb)].f)
    /\ RelHandled /\ OwnContract(aci_objects[last.idx]) = 0 /\ CommonContract(aci_objects[last.idx]) = 0
          => ~last.ret /\ last.writes = 0

C25_Witness ==
    /\ RelPosted /\ OwnContract(aci_objects[last.idx]) = 0
    /\ nb[Len(nb)].f.aci_contract = CommonContract(aci_objects[last.idx])
    /\ nb[Len(nb)].f.aci_tenant # MapGet(context.tenant_map, aci_objects[last.idx].tenant)
    /\ OwnContract(aci_objects[1]) # 0 /\ CommonContract(aci_objects[1]) # 0

EpgReturned == uPc = "returned" /\ uIn.op = "EPG.sync_object"

\* the record is an attribute-based EPG
AttrBased == EpgReturned /\ Truthy(Get(uIn.rec, "is_attr_based_epg"))

\* no create, no update, no counter changed
Untouched == uOut.o.nb = uIn.nbs /\ uOut.o.writes = 0 /\ uOut.o.res = uIn.res /\ uOut.o.ctx = EpgSynced.ctx

\* C26: an attribute-based EPG issues no destination create or update and
\* changes no counter; sync_object returns True for it when its application
\* profile and its bridge domain resolve in the Context and it has a name,
\* and False otherwise.
C26_AttrBased ==
    AttrBased =>
        /\ Untouched
        /\ uOut.o.ret <=> (uOut.ap_id # 0 /\ uOut.bd_id # 0 /\ Truthy(uIn.rec.name))

C26_Witness ==
    /\ AttrBased /\ uOut.o.ret /\ Untouched /\ uOut.existed
    /\ DOMAIN uOut.updates # {} /\ uIn.fault = "none"

\* C26 as stated: True for every attribute-based EPG, whether or not its
\* application profile or bridge domain resolves.
C26_Original == AttrBased => uOut.o.ret /\ Untouched

\* an existing EPG whose linked bridge domain is not the one the record's
\* bridge domain resolves to
BdChanged ==
    /\ EpgReturned /\ ~Truthy(Get(uIn.rec, "is_attr_based_epg")) /\ uIn.fault = "none"
    /\ uOut.existed /\ uOut.bd_id # 0
    /\ ReduceId(Get(uOut.current, "aci_bridge_domain")) # PyInt(uOut.bd_id)

\* C27 as stated: when the bridge domain of an existing EPG differs from the
\* one newly resolved from bd_map, the update set holds the bridge-domain
\* reference set to the new id and the EPG is counted as updated.
C27_Original ==
    BdChanged =>
        /\ Get(uOut.updates, "aci_bridge_domain") = PyInt(uOut.bd_id)
        /\ uOut.o.res.updated = uIn.res.updated + 1

\* sync_object of Node has just synced the record at last.idx, which has a
\* usable TEP address
NodeSynced ==
    /\ mi <= Len(modules) /\ modules[mi] = "NodeSyncModule"
    /\ last.cls = "NodeSyncModule" /\ pc \in {"loop", "post_sync", "sync_return"}
    /\ last.ret /\ last.fault = "none" /\ HasTep(aci_objects[last.idx])

\* the address record the node of the record is linked to
TepOf(rec) == nb[CurrentId(Get(nb[context.node_map[rec.node_id[2]]].f, "tep_ip_address"))[2]].f.address[2]

\* the TEP pool of the pod the node belongs to
PoolOf(rec) ==
    (CHOOSE p \in {aci.PodSyncModule[i] : i \in DOMAIN aci.PodSyncModule} : p.pod_id = rec.pod_id).tep_pool[2]

\* C28 as stated: the address record upserted for a node with a usable TEP
\* address carries the mask length of the TEP pool of the node's pod, for
\* any number of pods and any combination of pool mask lengths.
C28_Original ==
    NodeSynced => AfterSlash(TepOf(aci_objects[last.idx])) = PoolMask(PoolOf(aci_objects[last.idx]))

SubnetRun == uIn.op = "Subnet.sync_object"

\* the subnets the destination holds
SubnetsOf(nbs) == {i \in DOMAIN nbs : nbs[i].ep = "bridge_domain_subnets"}

\* the sync_object as one step
SubnetWhole ==
    Subnet_sync_object(uIn.rec, SyncResult("Subnet"), uIn.nbs, EpgSynced.ctx, [verify_updates |-> uIn.verify], uIn.fault)

\* a request for a subnet comes second, after the request for the gateway
\* address gave an address record of the record's host, whose id is the key
SubnetAfterAddress(i) ==
    /\ i = 2 /\ uOut.log[1].call = "get_or_create_ip_address" /\ ~uOut.log[1].raised
    /\ uOut.log[2].key = uOut.log[1].id
    /\ uOut.nb[uOut.log[1].id].ep = "ip_addresses"
    /\ BeforeSlash(uOut.nb[uOut.log[1].id].f.address[2]) = BeforeSlash(uIn.rec.ip[2])
    /\ uOut.log[2].created =>
          /\ uOut.nb[uOut.log[2].id].f.gateway_ip_address = PyObj(uOut.log[1].id)
          /\ uOut.log[2].id \notin SubnetsOf(uIn.nbs)
    /\ ~uOut.log[2].raised /\ ~uOut.log[2].created =>
          ReduceId(uOut.nb[uOut.log[2].id].f.gateway_ip_address) = PyInt(uOut.log[1].id)

\* C29: for a subnet record that is not skipped the gateway address record is
\* obtained before any subnet lookup or create, the subnet is looked up and
\* created with that record's id as its gateway key, and no subnet request
\* is made and no subnet created when obtaining the address fails.
C29_SubnetOrder ==
    SubnetRun =>
        /\ \A i \in DOMAIN uOut.log : uOut.log[i].call = "get_or_create_subnet" => SubnetAfterAddress(i)
        /\ uPc = "subnet" => Len(uOut.log) = 1 /\ ~uOut.log[1].raised /\ uOut.ip = uOut.log[1].id
        /\ uPc = "returned" /\ uOut.log # << >> /\ uOut.log[1].raised =>
              /\ Len(uOut.log) = 1 /\ SubnetsOf(uOut.nb) = SubnetsOf(uIn.nbs)
              /\ ~uOut.ret /\ uOut.res.failed = 1
        /\ uPc = "returned" =>
              /\ uOut.nb = SubnetWhole.nb /\ uOut.res = SubnetWhole.res
              /\ uOut.ret = SubnetWhole.ret /\ uOut.writes = SubnetWhole.writes

C29_Witness ==
    /\ SubnetRun /\ uPc = "returned" /\ Len(uOut.log) = 2 /\ uOut.log[2].created
    /\ uOut.log[1].created /\ uOut.writes = 2 /\ uOut.res.created = 1
    /\ uOut.nb[uOut.log[2].id].f.gateway_ip_address = PyObj(uOut.log[1].id)

PostSyncRun == uIn.op = "SoftwareVersion.post_sync"

\* C30: within one post_sync of SoftwareVersion, assign_golden_image is
\* invoked at most once per distinct (model, version) pair, however many
\* nodes share the pair.
C30_GoldenDedup ==
    PostSyncRun =>
        \A i, j \in DOMAIN uOut.invoked :
            uOut.invoked[i].model = uOut.invoked[j].model /\ uOut.invoked[i].version = uOut.invoked[j].version
                => i = j

C30_Witness ==
    /\ PostSyncRun /\ uPc = "returned" /\ Len(uIn.nodes) = 3
    /\ uIn.nodes[1].model = uIn.nodes[2].model /\ uIn.nodes[1].version = uIn.nodes[2].version
    /\ uIn.nodes[3].model # uIn.nodes[1].model /\ uIn.nodes[3].version = uIn.nodes[1].version
    /\ Len(uOut.invoked) = 2 /\ uOut.assigned = 2
    /\ uOut.invoked[1].model = uIn.nodes[1].model[2] /\ uOut.invoked[2].model = uIn.nodes[3].model[2]

\* step 1 of post_sync has run
Stamped == PostSyncRun /\ uPc \in {"golden", "returned"}

\* the keys of a device's blob other than 'firmware' are as before
OtherKeysKept(before, after) ==
    \A k \in DOMAIN before \ {"firmware"} : k \in DOMAIN after /\ after[k] = before[k]

\* C31: when post_sync stamps a device's metadata blob, every key other than
\* 'firmware' present before the update is present with the same value
\* afterwards, the blob then holds the computed 'firmware' entry, and no
\* update is issued when the current 'firmware' entry equals the computed one.
C31_FirmwareMerge ==
    Stamped =>
        /\ \A i \in DOMAIN Inventory :
              Inventory[i].ep = "devices" => OtherKeysKept(LocalContext(Inventory[i].f), LocalContext(uOut.nb[i].f))
        /\ \A n \in DOMAIN uOut.stamped :
              /\ GetOr(uOut.stamped[n].before, "firmware", EmptyDict) # uOut.stamped[n].firmware
              /\ LocalContext(uOut.nb[uOut.stamped[n].id].f).firmware = uOut.stamped[n].firmware
        /\ uOut.devices_updated = Len(uOut.stamped)
        /\ \A i \in DOMAIN Inventory : (\A n \in DOMAIN uOut.stamped : uOut.stamped[n].id # i) => uOut.nb[i] = Inventory[i]

\* the second device, which had a key of its own, was stamped; the third,
\* whose firmware entry was the computed one, was not
C31_Witness ==
    /\ Stamped /\ Len(uIn.nodes) = 3 /\ uIn.fw = << >>
    /\ uIn.nodes[3].version = PyStr("6.0") /\ uIn.nodes[3].model = PyStr("N9K")
    /\ \E n \in DOMAIN uOut.stamped : uOut.stamped[n].id = 2
    /\ DOMAIN LocalContext(uOut.nb[2].f) = {"rack", "firmware"}
    /\ \A n \in DOMAIN uOut.stamped : uOut.stamped[n].id # 7
    /\ uOut.devices_updated = 2

RaceRun == uIn.op = "_get_or_create"

\* the tenants of the destination with this name, the invocations for it
\* that created one, and those that issued a create
Named(nbs, name) == {i \in DOMAIN nbs : nbs[i].ep = "tenants" /\ nbs[i].f.name = name}

ObjectsNamed(name) == Named(uOut.nb, name)

CreatedFor(name) == {p \in 1..MaxCalls : uIn.names[p] = name /\ uOut.inv[p].created}

IssuedFor(name) == {p \in 1..MaxCalls : uIn.names[p] = name /\ uOut.inv[p].issued = 1}

\* C32: _get_or_create is not atomic.  An invocation issues a create only
\* after its own lookup found nothing; invocations run one after the other
\* create at most one object per natural key (a create that raised can be
\* issued again by a later invocation), while interleaved invocations can
\* each create one.
C32_NotAtomic ==
    RaceRun =>
        \A name \in {PyStr("t1"), PyStr("t2")} :
            /\ Cardinality(ObjectsNamed(name)) = Cardinality(Named(uIn.nbs, name)) + Cardinality(CreatedFor(name))
            /\ uIn.mode = "sequential" => Cardinality(CreatedFor(name)) <= 1 /\ Cardinality(ObjectsNamed(name)) <= 1
            /\ Cardinality(IssuedFor(name)) <= Cardinality(CreatedFor(name)) + uOut.faults
            /\ uIn.mode = "sequential" /\ uOut.faults = 0 /\ uIn.names[1] = name /\ uOut.inv[1].pc = "done" /\ uOut.inv[2].pc = "get" =>
                  /\ uOut.nb = get_or_create(uIn.nbs, "tenants", LookupParams(name), CreateParams(name), FALSE).nb
                  /\ uOut.inv[1].id = get_or_create(uIn.nbs, "tenants", LookupParams(name), CreateParams(name), FALSE).id

\* two interleaved invocations for one natural key both found nothing and
\* both created: two objects for the key
C32_Witness ==
    /\ RaceRun /\ uPc = "returned" /\ uIn.mode = "interleaved" /\ uIn.names[1] = uIn.names[2]
    /\ uOut.faults = 0 /\ uOut.inv[1].created /\ uOut.inv[2].created
    /\ Cardinality(ObjectsNamed(uIn.names[1])) = 2

\* C32 as stated for the sequential model: at most one create per natural
\* key is issued.
C32_Original ==
    RaceRun /\ uIn.mode = "sequential" =>
        \A name \in {PyStr("t1"), PyStr("t2")} : Cardinality(IssuedFor(name)) <= 1

\* every SyncResult there is: the running module's and the finished ones
ResultsNow(res, finished) == {res} \cup {finished[i] : i \in DOMAIN finished}

\* one step of a run keeps verified <= updated in every result, and adds to
\* the running module's verified only together with updated
VerifiedStep ==
    /\ \A r \in ResultsNow(result', stats') : r.verified <= r.updated
    /\ result'.verified > result.verified =>
          /\ result'.verified = result.verified + 1
          /\ result'.updated = result.updated + 1

\* C33: in every reachable state of every module result verified is at
\* most updated, and verified is incremented only in a step that also
\* increments updated.
C33_VerifiedUpdated == [][VerifiedStep]_vars

C33_Witness ==
    /\ pc = "loop" /\ last.ret /\ settings.verify_updates
    /\ result.updated = 1 /\ result.verified = 1 /\ writes >= 1

\* an update that was applied and not verified stays below: updated alone
C33_Unverified ==
    /\ pc = "loop" /\ last.ret
    /\ result.updated = 1 /\ result.verified = 0

\* created + updated + unchanged + failed of a result
Counted(res) == res.created + res.updated + res.unchanged + res.failed

\* one step of a run that is not a dry run: a sync_object call adds at most
\* one to the sum, nothing else adds to it, and the sum stays within the
\* records processed, which stay within the records fetched
CountedStep ==
    ~settings.dry_run =>
        /\ Counted(result') <= Counted(result) + 1
        /\ Counted(result') > Counted(result) => pc = "loop" /\ calls' = calls + 1
        /\ Counted(result') <= calls'
        /\ calls' <= Len(aci_objects')

\* C34: in a run that is not a dry run, processing one record adds at most
\* one to created + updated + unchanged + failed, so the sum of a module is
\* at most the number of records it fetched.
C34_CountedOnce == [][CountedStep]_vars

C34_Witness ==
    /\ ~settings.dry_run /\ pc = "post_sync" /\ Len(aci_objects) >= 2
    /\ calls = Len(aci_objects) /\ Counted(result) = Len(aci_objects)
    /\ result.created >= 1 /\ result.failed >= 1

\* a skipped record is counted nowhere
C34_Uncounted ==
    /\ ~settings.dry_run /\ pc = "post_sync" /\ calls >= 1
    /\ Counted(result) < calls

\* the step is a sync_object call that returned False
ReturnedFalse == pc = "loop" /\ calls' = calls + 1 /\ ~last'.raised /\ ~last'.ret

\* C35 as stated: a record whose sync_object returns False, skipped or
\* failed, leaves every map and every scalar entry of the Context as it was.
C35_Original == [][ReturnedFalse => context' = context]_vars

\* the part that holds: such a record leaves the name-to-ID maps, fabric_id
\* and fabric_name as they were
C35_MapsKept ==
    [][ReturnedFalse =>
          /\ \A k \in ContextMaps : context'[k] = context[k]
          /\ context'.fabric_id = context.fabric_id
          /\ context'.fabric_name = context.fabric_name]_vars

\* a pod whose get-or-create raised after its TEP pool was stored
C35_PodFailed ==
    /\ pc \in {"loop", "post_sync"} /\ last.cls = "PodSyncModule" /\ ~last.ret
    /\ last.fault = "goc1" /\ context.pod_map = << >> /\ context.tep_pool_mask /= ""

\* the links of a store of the given type that carry the called tuple
TupleLinks(links, type) ==
    {i \in DOMAIN links : /\ links[i].aci_object_type = type
                          /\ links[i].aci_object_id = uIn.object_id
                          /\ links[i].aci_contract = uIn.contract_id
                          /\ links[i].role = uIn.role}

EpgType == "netbox_aci_plugin.aciendpointgroup"

VrfType == "netbox_aci_plugin.acivrf"

\* the first call of the given operation returned, no request having failed,
\* on a destination that held the tuple for the other type only
OtherTypeOnly(op, own, other) ==
    /\ uIn.op = op /\ Len(uOut.rets) = 1 /\ uOut.faults = <<"none">>
    /\ TupleLinks(uIn.links, other) /= {} /\ TupleLinks(uIn.links, own) = {}

\* the call created the link of its own type
CreatedOwn(own) ==
    /\ uOut.rets = <<TRUE>> /\ uOut.posts = <<1>>
    /\ Cardinality(TupleLinks(uOut.links, own)) = 1

\* C36 as stated: an existing VRF relation with the tuple (object_id,
\* contract_id, role) does not prevent create_contract_relation from
\* creating the EPG relation with the same numeric tuple, and an existing EPG
\* relation does not prevent create_vrf_contract_relation from creating the
\* VRF relation.
C36_Original ==
    /\ OtherTypeOnly("create_contract_relation", EpgType, VrfType) => CreatedOwn(EpgType)
    /\ OtherTypeOnly("create_vrf_contract_relation", VrfType, EpgType) => CreatedOwn(VrfType)

\* the half that holds: the VRF relation is created next to the EPG's
C36_VrfCreated ==
    OtherTypeOnly("create_vrf_contract_relation", VrfType, EpgType) => CreatedOwn(VrfType)

C36_VrfWitness ==
    /\ OtherTypeOnly("create_vrf_contract_relation", VrfType, EpgType) /\ Len(uOut.links) = 2

\* what the EPG call does instead: nothing
C36_EpgPrevented ==
    OtherTypeOnly("create_contract_relation", EpgType, VrfType) =>
        /\ uOut.rets = <<FALSE>> /\ uOut.posts = <<0>> /\ uOut.links = uIn.links

CacheRun == uIn.op = "relation_cache"

\* the last call was an existence check for a tuple this client created
\* earlier, as the type the check is for
CheckedCreated ==
    /\ CacheRun /\ uOut.last.op = "_relation_exists"
    /\ \E t \in uOut.created :
          /\ <<t[2], t[3], t[4]>> = uOut.last.key
          /\ uOut.last.filter = "vrf" => t[1] = "netbox_aci_plugin.acivrf"

CachedRun == uIn.op = "_get_or_create_cached"

\* the calls so far that made the destination create an object for the key
CreatesFor(key) == {i \in DOMAIN uOut.log : uOut.log[i].key = key /\ uOut.log[i].wrote = 1 /\ ~uOut.log[i].raised}

\* C38: over a sequence of _get_or_create_cached calls sharing one cache at
\* most one successful create is issued per cache key and only that call
\* returns created = True; every later call with that key returns the same
\* object with created = False; a create that raises leaves the cache
\* unchanged and propagates the exception.
C38_CachedGetOrCreate ==
    CachedRun =>
        /\ \A key \in 1..2 : Cardinality(CreatesFor(key)) <= 1
        /\ \A i \in DOMAIN uOut.log : uOut.log[i].created <=> i \in CreatesFor(uOut.log[i].key)
        /\ Len(uOut.nb) = Len(uIn.nbs) + Cardinality(CreatesFor(1)) + Cardinality(CreatesFor(2))
        /\ \A i, j \in DOMAIN uOut.log :
              (i < j /\ uOut.log[i].key = uOut.log[j].key /\ ~uOut.log[i].raised) =>
                  /\ ~uOut.log[j].raised /\ ~uOut.log[j].created /\ uOut.log[j].wrote = 0
                  /\ uOut.log[j].id = uOut.log[i].id
        /\ \A i \in DOMAIN uOut.log :
              /\ uOut.log[i].raised <=> (uOut.log[i].wrote = 1 /\ ~uOut.log[i].created)
              /\ uOut.log[i].raised => uOut.log[i].after = uOut.log[i].before

\* a create that raised, the create issued again and succeeding, and the
\* third call answered from the cache
C38_Witness ==
    /\ CachedRun /\ Len(uOut.log) >= 3
    /\ uOut.log[1].raised /\ uOut.log[2].created /\ ~uOut.log[3].created
    /\ uOut.log[3].id = uOut.log[2].id /\ uOut.log[3].key = uOut.log[1].key
    /\ uOut.log[2].key = uOut.log[1].key

CopiesReturned == uPc = "returned" /\ uIn.op = "values_equal / _values_equal"

\* C39: for every pair (current, new) over None, empty and non-empty
\* strings, booleans, integers and objects with an id,
\* netbox_client._values_equal(current, new) equals
\* base.values_equal(current, new): the module-side diff says the field
\* differs exactly when the client-side filter keeps it.
C39_CopiesAgree ==
    CopiesReturned =>
        /\ uOut.client = uOut.base
        /\ uOut.differs = ~uOut.client
        /\ uOut.differs = uOut.kept

\* a pair the copies call equal although the values differ, and one they
\* call different
C39_Witness ==
    /\ CopiesReturned /\ uIn.current = PyObj(1) /\ uIn.new = PyInt(1)
    /\ uOut.base /\ uOut.client /\ ~uOut.differs

C39_WitnessDiffers ==
    /\ CopiesReturned /\ uIn.current = PyNone /\ uIn.new = PyBool(TRUE)
    /\ ~uOut.base /\ ~uOut.client /\ uOut.differs
====
